---- MODULE Spec2Model ----
(***************************************************************************)
(* A model of the adaptive RAG core of MultiNodeRAG: the LRU query cache,  *)
(* the global adaptive configuration, the context composer, the dynamic    *)
(* retriever with progressive widening and the query complexity analyzer.  *)
(*                                                                         *)
(* Conventions.  Python strings are TLA+ strings (Len, \o and SubSeq work  *)
(* on them; SubSeq(s, i, i) is the i-th character).  Similarities, scores  *)
(* and thresholds are integers in hundredths (0.35 is 35); a quotient that *)
(* the code computes as a float is kept as an exact fraction [num, den]    *)
(* and compared by cross-multiplication.  Python's None returned by a      *)
(* lookup is a record with hit = FALSE.                                    *)
(***************************************************************************)
EXTENDS Integers, Sequences, FiniteSets, TLC

VARIABLES
    query_cache,      \* QueryCache instance: [cache, hits, total_queries, max_size]
    hist,             \* history of the calls made on query_cache (observer only)
    ADAPTIVE_CONFIG,  \* the global AdaptiveConfig instance
    phase,            \* "import" while adaptive_config.py is being imported, then
                      \* "ready", or "failed" when the import raised
    updates,          \* number of update_adaptive_config calls made after the import
    last,             \* the last call made and how it ended (observer only)
    composing,        \* one use of a ContextComposer: its budget, the input list and
                      \* the lists its stages produced
    analysis,         \* one use of a QueryAnalyzer: the query, the state of the
                      \* embedding model and the QueryComplexity returned
    PROFILE_CONFIGS,  \* the profile registry: name -> ProfileConfig
    pack_files,       \* the pack files on disk: path -> JSON array, or None if missing
    retriever,        \* the DynamicRetriever instance apart from its query_cache:
                      \* the composer's budget and the loaded index data
    calls,            \* number of calls made on the retriever and the registry
    threads           \* the callers that run get and set on query_cache in parallel:
                      \* for each one its call, its position in it and its locals

cacheVars == <<query_cache, hist, threads>>

configVars == <<ADAPTIVE_CONFIG, phase, updates, last>>

retrieverVars == <<PROFILE_CONFIGS, pack_files, retriever, calls>>

vars == <<query_cache, hist, ADAPTIVE_CONFIG, phase, updates, last, composing, analysis,
          PROFILE_CONFIGS, pack_files, retriever, calls, threads>>

None == "None"

IdleHist == [op |-> "none"]

IdleLast == [op |-> "none"]

IdleComposing == [stage |-> "idle"]

IdleAnalysis == [stage |-> "idle"]

IdleRetriever == [stage |-> "idle"]

IdleThreads == [stage |-> "idle"]

(***************************************************************************)
(* Small helpers on sequences.                                             *)
(***************************************************************************)
Range(s) == {s[i] : i \in 1..Len(s)}

Min2(a, b) == IF a <= b THEN a ELSE b

Max2(a, b) == IF a >= b THEN a ELSE b

(***************************************************************************)
(* QueryCache (caching/query_cache.py).  self.cache is an OrderedDict: a   *)
(* sequence of [key, value] entries, least recently used first.            *)
(***************************************************************************)
NewQueryCache(max_size) ==
    [cache |-> <<>>, hits |-> 0, total_queries |-> 0, max_size |-> max_size]

Keys(od) == {od[i].key : i \in 1..Len(od)}

ValueOf(od, key) == od[CHOOSE i \in 1..Len(od) : od[i].key = key].value

\* OrderedDict.pop(key): the entries without the one of that key, order kept
Pop(od, key) == SelectSeq(od, LAMBDA e : e.key # key)

\* QueryCache.get with the promotion to most-recently-used left out
QueryCache_get_NoPromote(self, key) ==
    IF key \in Keys(self.cache)
    THEN [self |-> [self EXCEPT !.total_queries = @ + 1, !.hits = @ + 1],
          ret  |-> [hit |-> TRUE, value |-> ValueOf(self.cache, key)]]
    ELSE [self |-> [self EXCEPT !.total_queries = @ + 1],
          ret  |-> [hit |-> FALSE, value |-> None]]

\* QueryCache.get counting a hit on every lookup
QueryCache_get_CountAll(self, key) ==
    IF key \in Keys(self.cache)
    THEN [self |-> [self EXCEPT
                      !.total_queries = @ + 1,
                      !.hits = @ + 1,
                      !.cache = Append(Pop(self.cache, key),
                                       [key |-> key, value |-> ValueOf(self.cache, key)])],
          ret  |-> [hit |-> TRUE, value |-> ValueOf(self.cache, key)]]
    ELSE [self |-> [self EXCEPT !.total_queries = @ + 1, !.hits = @ + 1],
          ret  |-> [hit |-> FALSE, value |-> None]]

\* QueryCache.get: the new instance state and the returned value
QueryCache_get(self, key) ==
    IF key \in Keys(self.cache)
    THEN [self |-> [self EXCEPT
                      !.total_queries = @ + 1,
                      !.hits = @ + 1,
                      !.cache = Append(Pop(self.cache, key),
                                       [key |-> key, value |-> ValueOf(self.cache, key)])],
          ret  |-> [hit |-> TRUE, value |-> ValueOf(self.cache, key)]]
    ELSE [self |-> [self EXCEPT !.total_queries = @ + 1],
          ret  |-> [hit |-> FALSE, value |-> None]]

\* QueryCache.set without the eviction of the least recently used entry
QueryCache_set_NoEvict(self, key, value) ==
    IF key \in Keys(self.cache)
    THEN [self EXCEPT !.cache = Append(Pop(self.cache, key), [key |-> key, value |-> value])]
    ELSE [self EXCEPT !.cache = Append(self.cache, [key |-> key, value |-> value])]

\* QueryCache.set: popitem(last=False) on an empty OrderedDict raises KeyError,
\* which leaves the instance as it was (max_size <= 0 only)
QueryCache_set(self, key, value) ==
    IF key \in Keys(self.cache)
    THEN [self EXCEPT !.cache = Append(Pop(self.cache, key), [key |-> key, value |-> value])]
    ELSE IF Len(self.cache) >= self.max_size
         THEN IF self.cache = <<>>
              THEN self
              ELSE [self EXCEPT !.cache = Append(Tail(self.cache), [key |-> key, value |-> value])]
         ELSE [self EXCEPT !.cache = Append(self.cache, [key |-> key, value |-> value])]

\* QueryCache.get_hit_rate, as the fraction hits / total_queries
QueryCache_get_hit_rate(self) ==
    IF self.total_queries = 0
    THEN [num |-> 0, den |-> 1]
    ELSE [num |-> self.hits, den |-> self.total_queries]

QueryCache_get_size(self) == Len(self.cache)

QueryCache_clear(self) == [self EXCEPT !.cache = <<>>, !.hits = 0, !.total_queries = 0]

(***************************************************************************)
(* AdaptiveConfig (config/adaptive_config.py).  A keyword argument list is *)
(* a sequence of [key, value] in the order the caller wrote it; the float  *)
(* fields are in hundredths.                                               *)
(***************************************************************************)
DefaultConfig ==
    [token_cutoff |-> 72,
     start_k |-> 3, widen_by |-> 3, max_k |-> 12,
     relevance_threshold |-> 55, min_relevance |-> 35,
     max_context_tokens |-> 1100, max_context_chunks |-> 8,
     cache_sizes |-> [query |-> 500, context |-> 300, pack |-> 20],
     model_temperature |-> 70, model_top_p |-> 95,
     model_max_tokens |-> 1024, model_repetition_penalty |-> 105,
     enable_telemetry |-> TRUE,
     telemetry_log_file |-> "adaptive_rag_telemetry.jsonl"]

Ok == "ok"

\* __post_init__ with the second check left out
AdaptiveConfig_post_init_NoRelevanceCheck(c) ==
    IF c.start_k > c.max_k
    THEN "start_k cannot be greater than max_k"
    ELSE Ok

\* AdaptiveConfig.__post_init__: Ok, or the message of the ValueError raised
AdaptiveConfig_post_init(c) ==
    IF c.start_k > c.max_k
    THEN "start_k cannot be greater than max_k"
    ELSE IF c.relevance_threshold < c.min_relevance
         THEN "relevance_threshold cannot be less than min_relevance"
         ELSE Ok

\* the loop of update_adaptive_config: setattr on the global instance, one
\* keyword after the other, until a name is unknown
RECURSIVE SetAttrs(_, _)
SetAttrs(c, kwargs) ==
    IF kwargs = <<>>
    THEN [config |-> c, error |-> Ok]
    ELSE LET kw == Head(kwargs)
         IN  IF kw.key \in DOMAIN c
             THEN SetAttrs([c EXCEPT ![kw.key] = kw.value], Tail(kwargs))
             ELSE [config |-> c, error |-> "Unknown configuration parameter"]

\* update_adaptive_config: the instance after the call and how the call ended
update_adaptive_config(c, kwargs) ==
    LET set == SetAttrs(c, kwargs)
    IN  IF set.error # Ok
        THEN set
        ELSE [config |-> set.config, error |-> AdaptiveConfig_post_init(set.config)]

(***************************************************************************)
(* load_env_config.  An environment maps variable names to strings; int()  *)
(* and float() parse them and raise ValueError on anything else.           *)
(***************************************************************************)
Digits == <<"0", "1", "2", "3", "4", "5", "6", "7", "8", "9">>

IsDigit(ch) == \E d \in 1..10 : Digits[d] = ch

DigitValue(ch) == (CHOOSE d \in 1..10 : Digits[d] = ch) - 1

AllDigits(str) == Len(str) > 0 /\ \A i \in 1..Len(str) : IsDigit(SubSeq(str, i, i))

RECURSIVE DecimalValue(_)
DecimalValue(str) ==
    IF str = "" THEN 0
    ELSE 10 * DecimalValue(SubSeq(str, 1, Len(str) - 1))
         + DigitValue(SubSeq(str, Len(str), Len(str)))

\* int(value) for unsigned decimal strings
ParseInt(str) ==
    IF AllDigits(str)
    THEN [ok |-> TRUE, value |-> DecimalValue(str)]
    ELSE [ok |-> FALSE, value |-> 0]

\* float(value), in hundredths, for strings "d", "d.d" and "d.dd"
ParseFloat(str) ==
    IF AllDigits(str)
    THEN [ok |-> TRUE, value |-> 100 * DecimalValue(str)]
    ELSE IF \E p \in 2..Len(str) - 1 :
                /\ SubSeq(str, p, p) = "."
                /\ AllDigits(SubSeq(str, 1, p - 1))
                /\ AllDigits(SubSeq(str, p + 1, Len(str)))
                /\ Len(str) - p <= 2
         THEN LET p == CHOOSE q \in 2..Len(str) - 1 : SubSeq(str, q, q) = "."
                  frac == SubSeq(str, p + 1, Len(str))
              IN  [ok |-> TRUE,
                   value |-> 100 * DecimalValue(SubSeq(str, 1, p - 1))
                             + (IF Len(frac) = 1 THEN 10 ELSE 1) * DecimalValue(frac)]
         ELSE [ok |-> FALSE, value |-> 0]

env_mapping ==
    << [env_var |-> "ADAPTIVE_TOKEN_CUTOFF", config_key |-> "token_cutoff", type |-> "int"],
       [env_var |-> "ADAPTIVE_START_K", config_key |-> "start_k", type |-> "int"],
       [env_var |-> "ADAPTIVE_WIDEN_BY", config_key |-> "widen_by", type |-> "int"],
       [env_var |-> "ADAPTIVE_MAX_K", config_key |-> "max_k", type |-> "int"],
       [env_var |-> "ADAPTIVE_RELEVANCE_THRESHOLD", config_key |-> "relevance_threshold",
        type |-> "float"],
       [env_var |-> "ADAPTIVE_MIN_RELEVANCE", config_key |-> "min_relevance", type |-> "float"],
       [env_var |-> "ADAPTIVE_MAX_CONTEXT_TOKENS", config_key |-> "max_context_tokens",
        type |-> "int"],
       [env_var |-> "ADAPTIVE_MAX_CONTEXT_CHUNKS", config_key |-> "max_context_chunks",
        type |-> "int"],
       [env_var |-> "ADAPTIVE_MODEL_TEMPERATURE", config_key |-> "model_temperature",
        type |-> "float"],
       [env_var |-> "ADAPTIVE_MODEL_TOP_P", config_key |-> "model_top_p", type |-> "float"],
       [env_var |-> "ADAPTIVE_MODEL_MAX_TOKENS", config_key |-> "model_max_tokens",
        type |-> "int"],
       [env_var |-> "ADAPTIVE_MODEL_REPETITION_PENALTY",
        config_key |-> "model_repetition_penalty", type |-> "float"] >>

\* the updates dict built by load_env_config from the mappings i..12, or the
\* ValueError of the first conversion that fails
RECURSIVE EnvUpdates(_, _)
EnvUpdates(environ, i) ==
    IF i > Len(env_mapping)
    THEN [ok |-> TRUE, updates |-> <<>>]
    ELSE LET m == env_mapping[i]
         IN  IF m.env_var \notin DOMAIN environ
             THEN EnvUpdates(environ, i + 1)
             ELSE LET parsed == IF m.type = "int"
                                THEN ParseInt(environ[m.env_var])
                                ELSE ParseFloat(environ[m.env_var])
                      rest == EnvUpdates(environ, i + 1)
                  IN  IF ~parsed.ok
                      THEN [ok |-> FALSE, updates |-> <<>>]
                      ELSE IF ~rest.ok
                           THEN rest
                           ELSE [ok |-> TRUE,
                                 updates |-> <<[key |-> m.config_key,
                                                value |-> parsed.value]>> \o rest.updates]

\* load_env_config: the instance after the call and how the call ended
load_env_config(c, environ) ==
    LET u == EnvUpdates(environ, 1)
    IN  IF ~u.ok
        THEN [config |-> c, error |-> "ValueError"]
        ELSE IF u.updates = <<>>
             THEN [config |-> c, error |-> Ok]
             ELSE update_adaptive_config(c, u.updates)

(***************************************************************************)
(* Python string methods used by the composer and the analyzer.            *)
(***************************************************************************)
CharAt(str, i) == SubSeq(str, i, i)

\* str.lower() of one character
LowerOf ==
    [ch \in {"A", "B", "C", "D", "E", "F", "G", "H", "I", "J", "K", "L", "M",
             "N", "O", "P", "Q", "R", "S", "T", "U", "V", "W", "X", "Y", "Z"} |->
       CASE ch = "A" -> "a" [] ch = "B" -> "b" [] ch = "C" -> "c" [] ch = "D" -> "d"
         [] ch = "E" -> "e" [] ch = "F" -> "f" [] ch = "G" -> "g" [] ch = "H" -> "h"
         [] ch = "I" -> "i" [] ch = "J" -> "j" [] ch = "K" -> "k" [] ch = "L" -> "l"
         [] ch = "M" -> "m" [] ch = "N" -> "n" [] ch = "O" -> "o" [] ch = "P" -> "p"
         [] ch = "Q" -> "q" [] ch = "R" -> "r" [] ch = "S" -> "s" [] ch = "T" -> "t"
         [] ch = "U" -> "u" [] ch = "V" -> "v" [] ch = "W" -> "w" [] ch = "X" -> "x"
         [] ch = "Y" -> "y" [] ch = "Z" -> "z"]

UpperCaseLetters == DOMAIN LowerOf

LowerChar(ch) == IF ch \in UpperCaseLetters THEN LowerOf[ch] ELSE ch

\* str.lower(), by halves
RECURSIVE Lower(_)
Lower(str) ==
    IF Len(str) = 1 THEN LowerChar(str)
    ELSE IF Len(str) = 0 THEN ""
         ELSE LET half == Len(str) \div 2
              IN  Lower(SubSeq(str, 1, half)) \o Lower(SubSeq(str, half + 1, Len(str)))

\* the characters str.split() and the regex class \s treat as white space
WhiteSpace == {" ", "\t", "\n", "\r", "\f"}

IsSpace(ch) == ch \in WhiteSpace

\* str.split(): the maximal runs of non-space characters, in order; computed
\* by halves, a run that crosses the middle being joined again
RECURSIVE Split(_)
Split(str) ==
    IF Len(str) = 1 THEN (IF IsSpace(str) THEN <<>> ELSE <<str>>)
    ELSE IF Len(str) = 0 THEN <<>>
         ELSE LET half == Len(str) \div 2
                  left == Split(SubSeq(str, 1, half))
                  right == Split(SubSeq(str, half + 1, Len(str)))
              IN  IF ~IsSpace(CharAt(str, half)) /\ ~IsSpace(CharAt(str, half + 1))
                  THEN SubSeq(left, 1, Len(left) - 1)
                       \o <<left[Len(left)] \o right[1]>>
                       \o Tail(right)
                  ELSE left \o right

(***************************************************************************)
(* ContextComposer (retrieval/context_composer.py).  A chunk is a record   *)
(* [id, text, source, score, label].                                       *)
(***************************************************************************)
\* sorted(chunks, key=score, reverse=True): stable, so a chunk goes after the
\* chunks of the same or a higher score that came before it
\* an insertion that puts a chunk ahead of the chunks of equal score
RECURSIVE InsertByScore_TiesFirst(_, _)
InsertByScore_TiesFirst(sorted, chunk) ==
    IF sorted = <<>> THEN <<chunk>>
    ELSE IF Head(sorted).score > chunk.score
         THEN <<Head(sorted)>> \o InsertByScore_TiesFirst(Tail(sorted), chunk)
         ELSE <<chunk>> \o sorted

RECURSIVE InsertByScore(_, _)
InsertByScore(sorted, chunk) ==
    IF sorted = <<>> THEN <<chunk>>
    ELSE IF Head(sorted).score >= chunk.score
         THEN <<Head(sorted)>> \o InsertByScore(Tail(sorted), chunk)
         ELSE <<chunk>> \o sorted

RECURSIVE SortByScoreFrom(_, _, _)
SortByScoreFrom(chunks, i, sorted) ==
    IF i > Len(chunks) THEN sorted
    ELSE SortByScoreFrom(chunks, i + 1, InsertByScore(sorted, chunks[i]))

SortByScore(chunks) == SortByScoreFrom(chunks, 1, <<>>)

\* _create_default_definitions_pack: default_definitions
default_definitions ==
    <<[id |-> "defs:probability",
       text |-> "Probability is a measure of the likelihood that an event will occur. It is quantified as a number between 0 and 1, where 0 indicates impossibility and 1 indicates certainty."],
      [id |-> "defs:random_variable",
       text |-> "A random variable is a variable whose possible values are outcomes of a random phenomenon. It can be discrete (taking countable values) or continuous (taking uncountable values)."],
      [id |-> "defs:expectation",
       text |-> "The expected value or expectation of a random variable is the long-run average value of repetitions of the experiment it represents. For discrete random variables, it is the sum of all possible values weighted by their probabilities."],
      [id |-> "defs:variance",
       text |-> "Variance measures how far a set of numbers are spread out from their average value. For a random variable, it is the expected value of the squared deviation from the mean."],
      [id |-> "defs:distribution",
       text |-> "A probability distribution describes the probabilities of all possible outcomes of a random variable. It can be specified by a probability mass function (discrete) or probability density function (continuous)."]>>

\* set(text.lower().split())
WordsOf(text) == Range(Split(Lower(text)))

\* the word sets of the default definitions, computed once
default_definition_words ==
    [text \in {default_definitions[i].text : i \in 1..Len(default_definitions)} |->
        WordsOf(text)]

LowerWords(text) ==
    IF text \in DOMAIN default_definition_words
    THEN default_definition_words[text]
    ELSE WordsOf(text)

\* _calculate_similarity: Jaccard similarity of the word sets, as a fraction
calculate_similarity(text1, text2) ==
    LET words1 == LowerWords(text1)
        words2 == LowerWords(text2)
    IN  IF words1 = {} \/ words2 = {}
        THEN [num |-> 0, den |-> 1]
        ELSE [num |-> Cardinality(words1 \cap words2),
              den |-> Cardinality(words1 \cup words2)]

\* similarity > 0.92
DuplicateThresholdPercent == 92

IsDuplicate(similarity) ==
    similarity.num * 100 > DuplicateThresholdPercent * similarity.den

\* the loop of _deduplicate_chunks comparing a chunk with the last kept one only
RECURSIVE DeduplicateFrom_PreviousOnly(_, _, _)
DeduplicateFrom_PreviousOnly(chunks, i, unique_chunks) ==
    IF i > Len(chunks) THEN unique_chunks
    ELSE IF /\ unique_chunks # <<>>
            /\ IsDuplicate(calculate_similarity(chunks[i].text,
                                                unique_chunks[Len(unique_chunks)].text))
         THEN DeduplicateFrom_PreviousOnly(chunks, i + 1, unique_chunks)
         ELSE DeduplicateFrom_PreviousOnly(chunks, i + 1, Append(unique_chunks, chunks[i]))

\* the loop of _deduplicate_chunks from chunk i on
RECURSIVE DeduplicateFrom(_, _, _)
DeduplicateFrom(chunks, i, unique_chunks) ==
    IF i > Len(chunks) THEN unique_chunks
    ELSE IF \E j \in 1..Len(unique_chunks) :
                IsDuplicate(calculate_similarity(chunks[i].text, unique_chunks[j].text))
         THEN DeduplicateFrom(chunks, i + 1, unique_chunks)
         ELSE DeduplicateFrom(chunks, i + 1, Append(unique_chunks, chunks[i]))

deduplicate_chunks(chunks) ==
    IF Len(chunks) <= 1 THEN chunks ELSE DeduplicateFrom(chunks, 1, <<>>)

\* len(text) // 4
CharsPerToken == 4

EstimateTokens(text) == Len(text) \div CharsPerToken

\* text[:n] for n >= 0
Slice(text, n) == SubSeq(text, 1, Min2(n, Len(text)))

MinTruncationTokens == 50

\* the loop of _trim_to_budget truncating whatever space is left (no "> 50" test)
RECURSIVE TrimFrom_AlwaysTruncate(_, _, _, _, _)
TrimFrom_AlwaysTruncate(chunks, i, current_tokens, selected_chunks, max_tokens) ==
    IF i > Len(chunks) THEN selected_chunks
    ELSE LET chunk == chunks[i]
             chunk_tokens == EstimateTokens(chunk.text)
         IN  IF current_tokens + chunk_tokens <= max_tokens
             THEN TrimFrom_AlwaysTruncate(chunks, i + 1, current_tokens + chunk_tokens,
                                          Append(selected_chunks, chunk), max_tokens)
             ELSE LET remaining_tokens == max_tokens - current_tokens
                  IN  Append(selected_chunks,
                             [chunk EXCEPT
                                !.text = Slice(chunk.text, remaining_tokens * CharsPerToken)])

\* the loop of _trim_to_budget leaving out a chunk that does not fit and going on
\* to the chunks after it
RECURSIVE TrimFrom_SkipAndContinue(_, _, _, _, _)
TrimFrom_SkipAndContinue(chunks, i, current_tokens, selected_chunks, max_tokens) ==
    IF i > Len(chunks) THEN selected_chunks
    ELSE LET chunk == chunks[i]
             chunk_tokens == EstimateTokens(chunk.text)
         IN  IF current_tokens + chunk_tokens <= max_tokens
             THEN TrimFrom_SkipAndContinue(chunks, i + 1, current_tokens + chunk_tokens,
                                           Append(selected_chunks, chunk), max_tokens)
             ELSE TrimFrom_SkipAndContinue(chunks, i + 1, current_tokens,
                                           selected_chunks, max_tokens)

\* the loop of _trim_to_budget truncating to the whole budget, not to what is left
RECURSIVE TrimFrom_WholeBudget(_, _, _, _, _)
TrimFrom_WholeBudget(chunks, i, current_tokens, selected_chunks, max_tokens) ==
    IF i > Len(chunks) THEN selected_chunks
    ELSE LET chunk == chunks[i]
             chunk_tokens == EstimateTokens(chunk.text)
         IN  IF current_tokens + chunk_tokens <= max_tokens
             THEN TrimFrom_WholeBudget(chunks, i + 1, current_tokens + chunk_tokens,
                                       Append(selected_chunks, chunk), max_tokens)
             ELSE LET remaining_tokens == max_tokens - current_tokens
                  IN  IF remaining_tokens > MinTruncationTokens
                      THEN Append(selected_chunks,
                                  [chunk EXCEPT
                                     !.text = Slice(chunk.text, max_tokens * CharsPerToken)])
                      ELSE selected_chunks

\* the loop of _trim_to_budget without the break that ends it at the first chunk
\* that does not fit
RECURSIVE TrimFrom_NoBreak(_, _, _, _, _)
TrimFrom_NoBreak(chunks, i, current_tokens, selected_chunks, max_tokens) ==
    IF i > Len(chunks) THEN selected_chunks
    ELSE LET chunk == chunks[i]
             chunk_tokens == EstimateTokens(chunk.text)
         IN  IF current_tokens + chunk_tokens <= max_tokens
             THEN TrimFrom_NoBreak(chunks, i + 1, current_tokens + chunk_tokens,
                                   Append(selected_chunks, chunk), max_tokens)
             ELSE LET remaining_tokens == max_tokens - current_tokens
                  IN  TrimFrom_NoBreak(
                          chunks, i + 1, current_tokens,
                          IF remaining_tokens > MinTruncationTokens
                          THEN Append(selected_chunks,
                                      [chunk EXCEPT
                                         !.text = Slice(chunk.text,
                                                        remaining_tokens * CharsPerToken)])
                          ELSE selected_chunks,
                          max_tokens)

\* the loop of _trim_to_budget from chunk i on
RECURSIVE TrimFrom(_, _, _, _, _)
TrimFrom(chunks, i, current_tokens, selected_chunks, max_tokens) ==
    IF i > Len(chunks) THEN selected_chunks
    ELSE LET chunk == chunks[i]
             chunk_tokens == EstimateTokens(chunk.text)
         IN  IF current_tokens + chunk_tokens <= max_tokens
             THEN TrimFrom(chunks, i + 1, current_tokens + chunk_tokens,
                           Append(selected_chunks, chunk), max_tokens)
             ELSE LET remaining_tokens == max_tokens - current_tokens
                  IN  IF remaining_tokens > MinTruncationTokens
                      THEN Append(selected_chunks,
                                  [chunk EXCEPT
                                     !.text = Slice(chunk.text,
                                                    remaining_tokens * CharsPerToken)])
                      ELSE selected_chunks

trim_to_budget(chunks, max_tokens) == TrimFrom(chunks, 1, 0, <<>>, max_tokens)

\* _label_chunks leaving each chunk the label it came with
label_chunks_KeepLabels(chunks) == chunks

\* _label_chunks
label_chunks(chunks) ==
    [i \in 1..Len(chunks) |-> [chunks[i] EXCEPT !.label = "C" \o ToString(i)]]

\* the body of compose for a composer built with max_tokens: the list each
\* stage produces
ComposeStages(chunks, max_tokens) ==
    IF chunks = <<>>
    THEN [sorted |-> <<>>, deduplicated |-> <<>>, trimmed |-> <<>>, labeled |-> <<>>]
    ELSE LET sorted_chunks == SortByScore(chunks)
             deduplicated == deduplicate_chunks(sorted_chunks)
             trimmed == trim_to_budget(deduplicated, max_tokens)
         IN  [sorted |-> sorted_chunks, deduplicated |-> deduplicated,
              trimmed |-> trimmed, labeled |-> label_chunks(trimmed)]

\* ContextComposer.compose: the list returned
compose(chunks, max_tokens) == ComposeStages(chunks, max_tokens).labeled

(***************************************************************************)
(* QueryAnalyzer (core/query_analyzer.py).  Weighted sums that the code    *)
(* computes in floating point are exact fractions [num, den] here.         *)
(***************************************************************************)
complex_keywords ==
    <<"prove", "derive", "calculate", "solve", "analyze", "explain",
      "theorem", "lemma", "corollary", "definition", "proof",
      "probability", "distribution", "expectation", "variance",
      "convergence", "limit", "integral", "derivative",
      "matrix", "eigenvalue", "eigenvector", "determinant",
      "optimization", "minimize", "maximize", "constraint">>

simple_keywords ==
    <<"what", "how", "when", "where", "why", "which",
      "define", "meaning", "example", "instance",
      "yes", "no", "true", "false", "correct", "incorrect">>

\* sub occurs in str at position i
MatchesAt(str, sub, i) ==
    i >= 1 /\ i + Len(sub) - 1 <= Len(str) /\ SubSeq(str, i, i + Len(sub) - 1) = sub

\* sub in str
Contains(str, sub) == \E i \in 1..Len(str) + 1 : MatchesAt(str, sub, i)

\* any(word in str for word in words)
ContainsAny(str, words) == \E w \in 1..Len(words) : Contains(str, words[w])

\* str.count(sub) from position i on: occurrences that do not overlap, leftmost first
RECURSIVE CountFrom(_, _, _)
CountFrom(str, sub, i) ==
    IF \E p \in i..Len(str) : MatchesAt(str, sub, p)
    THEN LET first == CHOOSE p \in i..Len(str) :
                          /\ MatchesAt(str, sub, p)
                          /\ \A q \in i..p - 1 : ~MatchesAt(str, sub, q)
         IN  1 + CountFrom(str, sub, first + Len(sub))
    ELSE 0

RECURSIVE SumCounts(_, _, _)
SumCounts(query_lower, keywords, w) ==
    IF w > Len(keywords) THEN 0
    ELSE CountFrom(query_lower, Lower(keywords[w]), 1) + SumCounts(query_lower, keywords, w + 1)

\* _count_keywords
count_keywords(query, keywords) == SumCounts(Lower(query), keywords, 1)

\* the regex class \w: letters, digits and the underscore
DigitChars == {"0", "1", "2", "3", "4", "5", "6", "7", "8", "9"}

LowerCaseLetters == {LowerOf[ch] : ch \in UpperCaseLetters}

IsLetter(ch) == ch \in UpperCaseLetters \/ ch \in LowerCaseLetters

IsWordChar(ch) == IsLetter(ch) \/ ch \in DigitChars \/ ch = "_"

AllSpace(str, from, to) == \A m \in from..to : IsSpace(CharAt(str, m))

\* re.search(r'\b\w+\s*X\s*\w+', str) for X one of the characters in ops: a word
\* character, optional white space, X, optional white space, a word character
SearchWordOpWord(str, ops) ==
    \E p \in 1..Len(str) :
        /\ IsWordChar(CharAt(str, p))
        /\ \E e \in p + 1..Len(str) :
              /\ CharAt(str, e) \in ops
              /\ AllSpace(str, p + 1, e - 1)
              /\ \E w \in e + 1..Len(str) :
                    /\ IsWordChar(CharAt(str, w))
                    /\ AllSpace(str, e + 1, w - 1)

\* re.search(r'\b\w+\s*=\s*\w+', str)
SearchEquation(str) == SearchWordOpWord(str, {"="})

\* re.search(r'\b\w+\s*[+\-*/]\s*\w+', str)
SearchArithmetic(str) == SearchWordOpWord(str, {"+", "-", "*", "/"})

\* re.search(delim + r'.*?' + delim, str): two occurrences of delim that do not
\* overlap, with no newline between them
SearchDelimited(str, delim) ==
    \E i \in 1..Len(str) :
        /\ MatchesAt(str, delim, i)
        /\ \E j \in i + Len(delim)..Len(str) :
              /\ MatchesAt(str, delim, j)
              /\ \A m \in i + Len(delim)..j - 1 : CharAt(str, m) # "\n"

\* re.search(r'\\[a-zA-Z]+', str)
SearchLatexCommand(str) ==
    \E i \in 1..Len(str) - 1 : CharAt(str, i) = "\\" /\ IsLetter(CharAt(str, i + 1))

\* re.search(r'\b\w+\([^)]+\)', str)
SearchFunctionCall(str) ==
    \E p \in 1..Len(str) :
        /\ IsWordChar(CharAt(str, p))
        /\ MatchesAt(str, "(", p + 1)
        /\ \E q \in p + 3..Len(str) :
              /\ CharAt(str, q) = ")"
              /\ \A m \in p + 2..q - 1 : CharAt(str, m) # ")"

\* _has_mathematical_content: self.math_patterns in order
has_mathematical_content(query) ==
    \/ SearchEquation(query)
    \/ SearchDelimited(query, "$$")
    \/ SearchLatexCommand(query)
    \/ SearchFunctionCall(query)
    \/ SearchArithmetic(query)

\* _has_equations
has_equations(query) ==
    \/ SearchDelimited(query, "$$")
    \/ SearchDelimited(query, "$")
    \/ SearchEquation(query)
    \/ SearchFunctionCall(query)

\* _classify_question_type
classify_question_type(query) ==
    LET query_lower == Lower(query)
    IN  IF ContainsAny(query_lower, <<"what", "define", "definition">>) THEN "definition"
        ELSE IF ContainsAny(query_lower, <<"how", "prove", "derive", "calculate">>)
             THEN "procedural"
        ELSE IF ContainsAny(query_lower, <<"why", "explain", "reason">>) THEN "explanatory"
        ELSE IF ContainsAny(query_lower, <<"example", "instance", "case">>) THEN "example"
        ELSE IF ContainsAny(query_lower, <<"compare", "difference", "similarity">>)
             THEN "comparative"
        ELSE "general"

\* _has_definitions
has_definitions(query) ==
    ContainsAny(Lower(query), <<"define", "definition", "what is", "meaning of",
                                "explain the concept", "describe">>)

\* _has_proofs
has_proofs(query) ==
    ContainsAny(Lower(query), <<"prove", "proof", "show that", "demonstrate",
                                "derive", "deduce", "establish">>)

\* _has_examples
has_examples(query) ==
    ContainsAny(Lower(query), <<"example", "instance", "case", "illustrate",
                                "give an example", "show an example">>)

Half == [num |-> 1, den |-> 2]

\* _calculate_semantic_complexity without the two "return 0.5" fallbacks
calculate_semantic_complexity_NoFallback(query, embedding_model) ==
    LET words == Split(query)
        unique_words == Cardinality(Range(words))
        capped == Min2(Len(query), 100)
    IN  IF words = <<>>
        THEN [num |-> capped, den |-> 200]
        ELSE [num |-> 100 * unique_words + capped * Len(words),
              den |-> 200 * Len(words)]

\* _calculate_semantic_complexity: 0.5 without a model or when encode raises,
\* else (unique words / words + min(len(query) / 100, 1.0)) / 2
calculate_semantic_complexity(query, embedding_model) ==
    IF embedding_model # "loaded"
    THEN Half
    ELSE LET words == Split(query)
             unique_words == Cardinality(Range(words))
             capped == Min2(Len(query), 100)
         IN  IF words = <<>>
             THEN [num |-> capped, den |-> 200]
             ELSE [num |-> 100 * unique_words + capped * Len(words),
                   den |-> 200 * Len(words)]

\* _extract_features
extract_features(query, embedding_model) ==
    [query_length |-> Len(Split(query)),
     char_length |-> Len(query),
     has_math |-> has_mathematical_content(query),
     complex_keywords |-> count_keywords(query, complex_keywords),
     simple_keywords |-> count_keywords(query, simple_keywords),
     question_type |-> classify_question_type(query),
     has_equations |-> has_equations(query),
     has_definitions |-> has_definitions(query),
     has_proofs |-> has_proofs(query),
     has_examples |-> has_examples(query),
     semantic_complexity |-> calculate_semantic_complexity(query, embedding_model)]

\* type_scores, in hundredths
TypeScore(question_type) ==
    CASE question_type = "definition" -> 30
      [] question_type = "procedural" -> 80
      [] question_type = "explanatory" -> 60
      [] question_type = "example" -> 40
      [] question_type = "comparative" -> 70
      [] OTHER -> 50

Bit(b) == IF b THEN 1 ELSE 0

\* the weighted sum returned as it is, without max(lo, min(1.0, x))
ClampFraction_NoClamp(x, lowTenths) == x

\* max(0.0, min(1.0, x)) and max(0.1, min(1.0, x)) for a fraction x, den > 0
ClampFraction(x, lowTenths) ==
    IF x.num > x.den THEN [num |-> 1, den |-> 1]
    ELSE IF 10 * x.num < lowTenths * x.den THEN [num |-> lowTenths, den |-> 10]
         ELSE x

\* _calculate_complexity_score.  In six-thousandths: 0.1 * min(n / 20, 1) is
\* 30 * min(n, 20); a weight w on a flag is 6000 * w; a weight w on
\* min(c / 3, 1) is 2000 * w * min(c, 3); 0.1 * type score t (hundredths) is
\* 6 * t; 0.1 * semantic complexity s is 600 * s.
calculate_complexity_score(features) ==
    LET sem == features.semantic_complexity
        fixed == 30 * Min2(features.query_length, 20)
                 + 1200 * Bit(features.has_math)
                 + 300 * Min2(features.complex_keywords, 3)
                 - 200 * Min2(features.simple_keywords, 3)
                 + 900 * Bit(features.has_equations)
                 + 300 * Bit(features.has_definitions)
                 + 1200 * Bit(features.has_proofs)
                 + 300 * Bit(features.has_examples)
                 + 6 * TypeScore(features.question_type)
    IN  ClampFraction([num |-> fixed * sem.den + 600 * sem.num, den |-> 6000 * sem.den], 0)

\* _calculate_confidence.  In three-hundredths: 0.3 per indicator is 90,
\* 0.4 * min(n / 10, 1) is 12 * min(n, 10), 0.3 * min(c / 3, 1) is 30 * min(c, 3).
calculate_confidence(features) ==
    LET indicator_count == Bit(features.has_math) + Bit(features.has_equations)
                           + Bit(features.has_definitions) + Bit(features.has_proofs)
                           + Bit(features.has_examples)
        clear_indicators == features.complex_keywords + features.simple_keywords
    IN  ClampFraction([num |-> 90 * indicator_count
                               + 12 * Min2(features.query_length, 10)
                               + 30 * Min2(clear_indicators, 3),
                       den |-> 300], 1)

\* x > t / 10 and x < t / 10 for a fraction x
Above(x, tenths) == 10 * x.num > tenths * x.den

Below(x, tenths) == 10 * x.num < tenths * x.den

\* _make_recommendation with moderate complexity at high confidence sent to "direct"
make_recommendation_ModerateDirect(complexity_score, confidence) ==
    IF Above(confidence, 8)
    THEN IF Above(complexity_score, 6) THEN "rag"
         ELSE "direct"
    ELSE IF Above(confidence, 5)
         THEN IF Above(complexity_score, 7) THEN "rag"
              ELSE IF Below(complexity_score, 2) THEN "direct"
              ELSE "rag"
         ELSE "rag"

\* _make_recommendation with the thresholds of the two confidence bands swapped
make_recommendation_SwappedBands(complexity_score, confidence) ==
    IF Above(confidence, 8)
    THEN IF Above(complexity_score, 7) THEN "rag"
         ELSE IF Below(complexity_score, 2) THEN "direct"
         ELSE "rag"
    ELSE IF Above(confidence, 5)
         THEN IF Above(complexity_score, 6) THEN "rag"
              ELSE IF Below(complexity_score, 3) THEN "direct"
              ELSE "rag"
         ELSE "rag"

\* _make_recommendation
make_recommendation(complexity_score, confidence) ==
    IF Above(confidence, 8)
    THEN IF Above(complexity_score, 6) THEN "rag"
         ELSE IF Below(complexity_score, 3) THEN "direct"
         ELSE "rag"
    ELSE IF Above(confidence, 5)
         THEN IF Above(complexity_score, 7) THEN "rag"
              ELSE IF Below(complexity_score, 2) THEN "direct"
              ELSE "rag"
         ELSE "rag"

\* ', '.join(reasons)
RECURSIVE JoinWith(_, _)
JoinWith(strs, sep) ==
    IF strs = <<>> THEN ""
    ELSE IF Len(strs) = 1 THEN strs[1]
         ELSE strs[1] \o sep \o JoinWith(Tail(strs), sep)

\* _generate_reasoning
generate_reasoning(features, complexity_score) ==
    LET reasons ==
            (IF features.has_math THEN <<"contains mathematical content">> ELSE <<>>)
            \o (IF features.has_equations THEN <<"includes equations">> ELSE <<>>)
            \o (IF features.has_proofs THEN <<"requests proofs or derivations">> ELSE <<>>)
            \o (IF features.complex_keywords > 0
                THEN <<"uses " \o ToString(features.complex_keywords) \o " complex keywords">>
                ELSE <<>>)
            \o (IF features.query_length > 15 THEN <<"is a long, detailed query">> ELSE <<>>)
            \o (IF features.simple_keywords > 0
                THEN <<"uses " \o ToString(features.simple_keywords) \o " simple keywords">>
                ELSE <<>>)
            \o (IF features.has_examples THEN <<"requests examples">> ELSE <<>>)
        named == IF reasons = <<>> THEN <<"has moderate complexity indicators">> ELSE reasons
        complexity_level == IF Above(complexity_score, 7) THEN "high"
                            ELSE IF Above(complexity_score, 4) THEN "moderate"
                            ELSE "low"
    IN  "Query has " \o complexity_level \o " complexity because it " \o JoinWith(named, ", ")

\* analyze_query: the QueryComplexity returned
analyze_query(query, embedding_model) ==
    LET features == extract_features(query, embedding_model)
        complexity_score == calculate_complexity_score(features)
        confidence == calculate_confidence(features)
    IN  [complexity_score |-> complexity_score,
         confidence |-> confidence,
         reasoning |-> generate_reasoning(features, complexity_score),
         features |-> features,
         recommendation |-> make_recommendation(complexity_score, confidence)]

(***************************************************************************)
(* The profile registry (config/profiles_config.py).                       *)
(***************************************************************************)
\* ProfileConfig.__post_init__
ProfileConfig_post_init(p) ==
    IF p.source \notin {"pack", "index", "hybrid"} THEN "ValueError: Invalid source type"
    ELSE IF p.source = "index" /\ p.index_name = None
         THEN "ValueError: index_name required for index source"
    ELSE IF p.source = "pack" /\ p.pack_file = None
         THEN "ValueError: pack_file required for pack source"
    ELSE Ok

\* PROFILE_CONFIGS as the module defines it
DefaultProfiles ==
    ("defs" :> [name |-> "defs", source |-> "pack", index_name |-> None,
                pack_file |-> "packs/definitions.json", widenable |-> FALSE,
                priority |-> 1, max_chunks |-> 3, similarity_threshold |-> 40,
                relevance_boost |-> 0])
    @@ ("theorem" :> [name |-> "theorem", source |-> "index", index_name |-> "theorems",
                      pack_file |-> None, widenable |-> TRUE, priority |-> 2,
                      max_chunks |-> 5, similarity_threshold |-> 35,
                      relevance_boost |-> 10])
    @@ ("worked" :> [name |-> "worked", source |-> "index",
                     index_name |-> "worked_examples", pack_file |-> None,
                     widenable |-> TRUE, priority |-> 3, max_chunks |-> 4,
                     similarity_threshold |-> 35, relevance_boost |-> 0])
    @@ ("general" :> [name |-> "general", source |-> "index", index_name |-> "general",
                      pack_file |-> None, widenable |-> TRUE, priority |-> 4,
                      max_chunks |-> 6, similarity_threshold |-> 30,
                      relevance_boost |-> 0])

\* get_profile_config answering an unknown name with the default profile
get_profile_config_Fallback(registry, profile_name) ==
    IF profile_name \notin DOMAIN registry
    THEN [error |-> Ok, config |-> registry["theorem"]]
    ELSE [error |-> Ok, config |-> registry[profile_name]]

\* get_profile_config
get_profile_config(registry, profile_name) ==
    IF profile_name \notin DOMAIN registry
    THEN [error |-> "ValueError: Unknown profile", config |-> None]
    ELSE [error |-> Ok, config |-> registry[profile_name]]

\* add_profile
add_profile(registry, name, config) ==
    [n \in DOMAIN registry \cup {name} |-> IF n = name THEN config ELSE registry[n]]

\* remove_profile
remove_profile(registry, name) ==
    IF name \in DOMAIN registry
    THEN [error |-> Ok, registry |-> [n \in DOMAIN registry \ {name} |-> registry[n]]]
    ELSE [error |-> "ValueError: Profile does not exist", registry |-> registry]

\* query_metadata: None (given = FALSE) or a dict (data); "key in query_metadata"
HasKey(query_metadata, key) ==
    query_metadata.given /\ key \in DOMAIN query_metadata.data

\* the content-type hints of select_profile_for_query
ContentTypeProfile(query_metadata, selected_profile) ==
    LET content_type == IF HasKey(query_metadata, "content_type")
                        THEN query_metadata.data["content_type"]
                        ELSE ""
    IN  IF content_type = "definition" THEN "defs"
        ELSE IF content_type = "example" \/ content_type = "exercise" THEN "worked"
        ELSE IF content_type = "general" THEN "general"
        ELSE selected_profile

\* select_profile_for_query returning the preferred profile without looking it up
select_profile_for_query_AnyPreferred(registry, query, query_metadata) ==
    IF query_metadata.given /\ DOMAIN query_metadata.data # {}
    THEN IF HasKey(query_metadata, "preferred_profile")
         THEN query_metadata.data["preferred_profile"]
         ELSE ContentTypeProfile(query_metadata, "theorem")
    ELSE "theorem"

\* select_profile_for_query; "if query_metadata:" is false for None and for {}
select_profile_for_query(registry, query, query_metadata) ==
    IF query_metadata.given /\ DOMAIN query_metadata.data # {}
    THEN IF /\ HasKey(query_metadata, "preferred_profile")
            /\ query_metadata.data["preferred_profile"] \in DOMAIN registry
         THEN query_metadata.data["preferred_profile"]
         ELSE ContentTypeProfile(query_metadata, "theorem")
    ELSE "theorem"

(***************************************************************************)
(* DynamicRetriever (retrieval/dynamic_search.py).  The embedder and the   *)
(* vector index are external: for each query the index holds the chunk     *)
(* references in descending order of similarity, and a search for n        *)
(* neighbours returns the first n of them.                                 *)
(***************************************************************************)
\* RelevanceScorer.mean_relevance, as the fraction sum / len
mean_relevance(results) ==
    LET RECURSIVE SumFrom(_)
        SumFrom(i) == IF i > Len(results) THEN 0 ELSE results[i].similarity + SumFrom(i + 1)
    IN  IF results = <<>>
        THEN [num |-> 0, den |-> 1]
        ELSE [num |-> SumFrom(1), den |-> Len(results)]

\* a file on disk: missing, or holding a JSON array of objects whose absent keys are None
MissingFile == [exists |-> FALSE, data |-> <<>>]

FileWith(data) == [exists |-> TRUE, data |-> data]

PackPaths == {DefaultProfiles[n].pack_file : n \in {"defs"}}

NoPackFiles == [path \in PackPaths |-> MissingFile]

\* _retrieve_from_pack walking the pack array from its last record to its first
retrieve_from_pack_Reversed(files, profile_config) ==
    LET pack_file == profile_config.pack_file
        created == IF files[pack_file].exists
                   THEN files
                   ELSE [files EXCEPT ![pack_file] = FileWith(default_definitions)]
        pack_data == created[pack_file].data
        n == Len(pack_data)
    IN  [files |-> created,
         chunks |-> [i \in 1..n |->
                        [id |-> IF pack_data[n + 1 - i].id = None
                                THEN "pack_" \o ToString(n - i)
                                ELSE pack_data[n + 1 - i].id,
                         text |-> IF pack_data[n + 1 - i].text = None THEN ""
                                  ELSE pack_data[n + 1 - i].text,
                         source |-> "pack",
                         score |-> 100,
                         label |-> "C" \o ToString(i)]]]

\* _retrieve_from_pack: the chunks and the files afterwards (a missing pack file is
\* created with the default definitions)
retrieve_from_pack(files, profile_config) ==
    LET pack_file == profile_config.pack_file
        created == IF files[pack_file].exists
                   THEN files
                   ELSE [files EXCEPT ![pack_file] = FileWith(default_definitions)]
        pack_data == created[pack_file].data
    IN  [files |-> created,
         chunks |-> [i \in 1..Len(pack_data) |->
                        [id |-> IF pack_data[i].id = None
                                THEN "pack_" \o ToString(i - 1)
                                ELSE pack_data[i].id,
                         text |-> IF pack_data[i].text = None THEN "" ELSE pack_data[i].text,
                         source |-> "pack",
                         score |-> 100,
                         label |-> "C" \o ToString(i)]]]

\* self.index.search(query_embedding, n): the n nearest references, nearest first
index_search(self, query, n) ==
    SubSeq(self.similarities[query], 1, Min2(n, Len(self.similarities[query])))

\* the loop over zip(similarities[0], indices[0]): the neighbours at or above the
\* profile's similarity threshold, boosted
FilterAndBoost(self, neighbours, profile_config) ==
    LET kept == SelectSeq(neighbours,
                          LAMBDA nb : nb.sim >= profile_config.similarity_threshold)
    IN  [i \in 1..Len(kept) |->
            [filename |-> self.md_filenames[kept[i].idx],
             content |-> self.md_chunks[kept[i].idx],
             similarity |-> kept[i].sim + profile_config.relevance_boost,
             index |-> kept[i].idx]]

\* all_results.sort(key=lambda x: x['similarity'], reverse=True): stable
RECURSIVE SortBySimilarityFrom(_, _, _)
SortBySimilarityFrom(results, i, sorted) ==
    IF i > Len(results) THEN sorted
    ELSE LET ahead == {j \in 1..Len(sorted) : sorted[j].similarity >= results[i].similarity}
             n == Cardinality(ahead)
         IN  SortBySimilarityFrom(results, i + 1,
                 SubSeq(sorted, 1, n) \o <<results[i]>> \o SubSeq(sorted, n + 1, Len(sorted)))

\* the widening condition with the profile's widenable flag ignored
WideningNeeded_IgnoreWidenable(profile_config, mean, config, kept, k) ==
    /\ mean.num < config.relevance_threshold * mean.den
    /\ kept < k

\* the condition of the progressive widening: profile_config.widenable and
\* mean_relevance < config.relevance_threshold and len(relevant_results) < k
WideningNeeded(profile_config, mean, config, kept, k) ==
    /\ profile_config.widenable
    /\ mean.num < config.relevance_threshold * mean.den
    /\ kept < k

\* _retrieve_from_index: the chunks, and what was asked of the index on the way
retrieve_from_index(self, query, profile_config, k, config) ==
    LET start_k == Min2(k, config.start_k)
        relevant_results == FilterAndBoost(self, index_search(self, query, start_k),
                                           profile_config)
        mean == mean_relevance(relevant_results)
        widen == WideningNeeded(profile_config, mean, config, Len(relevant_results), k)
        wider_k == Min2(Min2(start_k + config.widen_by, k), Len(self.md_chunks))
        all_results == SortBySimilarityFrom(
                           FilterAndBoost(self, index_search(self, query, wider_k),
                                          profile_config), 1, <<>>)
        final_results == IF widen
                         THEN SubSeq(all_results, 1, Min2(k, Len(all_results)))
                         ELSE relevant_results
    IN  [chunks |-> [i \in 1..Len(final_results) |->
                        [id |-> final_results[i].filename,
                         text |-> final_results[i].content,
                         source |-> "index",
                         score |-> final_results[i].similarity,
                         label |-> "C" \o ToString(i)]],
         searches |-> IF widen THEN <<start_k, wider_k>> ELSE <<start_k>>,
         kept |-> Len(relevant_results),
         initial |-> [i \in 1..Len(relevant_results) |-> relevant_results[i].index],
         mean |-> mean,
         used_widening |-> widen]

\* the truth value Python gives to the value returned by QueryCache.get
Truthy(ret) == ret.hit /\ Len(ret.value) > 0

NoIndexWork == [searches |-> <<>>, kept |-> 0, initial |-> <<>>, handed |-> <<>>,
                mean |-> [num |-> 0, den |-> 1], used_widening |-> FALSE]

\* DynamicRetriever.retrieve: the returned list or the error raised, the cache and
\* the files afterwards, and what the call did on the way.  k_arg = 0 stands for
\* every falsy k (None and 0), config_arg = <<>> for config=None.
retrieve(self, registry, cache, files, global_config, query, profile, k_arg, config_arg) ==
    LET found == get_profile_config(registry, profile)
        profile_config == found.config
        k == IF k_arg = 0 THEN profile_config.max_chunks ELSE k_arg
        cache_key == profile \o "::" \o query
        looked == QueryCache_get(cache, cache_key)
        from_pack == retrieve_from_pack(files, profile_config)
        from_index == retrieve_from_index(self, query, profile_config, k,
                          IF config_arg = <<>> THEN global_config ELSE config_arg[1])
        chunks == IF profile_config.source = "pack" THEN from_pack.chunks
                  ELSE from_index.chunks
        composed_chunks == compose(chunks, self.max_tokens)
    IN  IF found.error # Ok
        THEN [error |-> found.error, ret |-> <<>>, query_cache |-> cache, files |-> files,
              k |-> 0, cache_key |-> cache_key, source |-> None, widenable |-> FALSE,
              loaded_pack |-> FALSE, composed |-> FALSE, index_work |-> NoIndexWork]
        ELSE IF Truthy(looked.ret)
        THEN [error |-> Ok, ret |-> looked.ret.value, query_cache |-> looked.self,
              files |-> files, k |-> k, cache_key |-> cache_key,
              source |-> profile_config.source, widenable |-> profile_config.widenable,
              loaded_pack |-> FALSE, composed |-> FALSE, index_work |-> NoIndexWork]
        ELSE [error |-> Ok, ret |-> composed_chunks,
              query_cache |-> QueryCache_set(looked.self, cache_key, composed_chunks),
              files |-> IF profile_config.source = "pack" THEN from_pack.files ELSE files,
              k |-> k, cache_key |-> cache_key,
              source |-> profile_config.source, widenable |-> profile_config.widenable,
              loaded_pack |-> profile_config.source = "pack", composed |-> TRUE,
              index_work |-> IF profile_config.source = "pack" THEN NoIndexWork
                             ELSE [searches |-> from_index.searches,
                                   kept |-> from_index.kept,
                                   initial |-> from_index.initial,
                                   handed |-> [i \in 1..Len(chunks) |-> chunks[i].id],
                                   mean |-> from_index.mean,
                                   used_widening |-> from_index.used_widening]]

(***************************************************************************)
(* SpecConfig: the import of adaptive_config.py (the global instance is    *)
(* built from the defaults, then load_env_config runs), followed by any    *)
(* sequence of update_adaptive_config calls.  An import that raises leaves *)
(* no module behind: phase "failed" has no further step.                   *)
(***************************************************************************)
MaxUpdates == 2

MaxKwargs == 2

Absent == "absent"

EnvChoices ==
    [ADAPTIVE_START_K : {Absent, "1", "5", "many"},
     ADAPTIVE_MAX_K : {Absent, "2", "4"},
     ADAPTIVE_RELEVANCE_THRESHOLD : {Absent, "0.3", "0.8"},
     ADAPTIVE_MIN_RELEVANCE : {Absent, "0.5"}]

\* os.environ for a choice: the variables that are set
Environ(choice) ==
    [v \in {w \in DOMAIN choice : choice[w] # Absent} |-> choice[v]]

KwargChoices ==
    {[key |-> "start_k", value |-> v] : v \in {1, 5}}
    \cup {[key |-> "max_k", value |-> v] : v \in {2, 4}}
    \cup {[key |-> "relevance_threshold", value |-> v] : v \in {30, 80}}
    \cup {[key |-> "min_relevance", value |-> v] : v \in {50}}
    \cup {[key |-> "widen_by", value |-> v] : v \in {1}}
    \cup {[key |-> "retrieval_k", value |-> v] : v \in {4}}

\* keyword argument lists of at most n keywords with distinct names
KwargLists(choices, n) ==
    {kw \in UNION {[1..m -> choices] : m \in 1..n} :
        \A i, j \in 1..Len(kw) : i # j => kw[i].key # kw[j].key}

InitConfig ==
    /\ ADAPTIVE_CONFIG = DefaultConfig
    /\ phase = "import"
    /\ updates = 0
    /\ last = IdleLast
    /\ query_cache = NewQueryCache(0)
    /\ hist = IdleHist
    /\ threads = IdleThreads
    /\ composing = IdleComposing
    /\ analysis = IdleAnalysis
    /\ PROFILE_CONFIGS = DefaultProfiles
    /\ pack_files = NoPackFiles
    /\ retriever = IdleRetriever
    /\ calls = 0

LoadEnv(environ) ==
    /\ phase = "import"
    /\ LET r == load_env_config(ADAPTIVE_CONFIG, environ)
       IN  /\ ADAPTIVE_CONFIG' = r.config
           /\ phase' = IF r.error = Ok THEN "ready" ELSE "failed"
           /\ last' = [op |-> "load_env", error |-> r.error, before |-> ADAPTIVE_CONFIG]
    /\ UNCHANGED <<updates, cacheVars, composing, analysis, retrieverVars>>

UpdateConfig(kwargs) ==
    /\ phase = "ready"
    /\ updates < MaxUpdates
    /\ LET r == update_adaptive_config(ADAPTIVE_CONFIG, kwargs)
       IN  /\ ADAPTIVE_CONFIG' = r.config
           /\ last' = [op |-> "update", error |-> r.error, before |-> ADAPTIVE_CONFIG]
    /\ updates' = updates + 1
    /\ UNCHANGED <<phase, cacheVars, composing, analysis, retrieverVars>>

NextConfig ==
    \/ \E choice \in EnvChoices : LoadEnv(Environ(choice))
    \/ \E kwargs \in KwargLists(KwargChoices, MaxKwargs) : UpdateConfig(kwargs)

SpecConfig == InitConfig /\ [][NextConfig]_vars

(***************************************************************************)
(* Claims on the configuration, checked under SpecConfig.                  *)
(***************************************************************************)
ConfigInvariant(c) ==
    /\ c.start_k <= c.max_k
    /\ c.relevance_threshold >= c.min_relevance

\* C4: in every state reachable by update_adaptive_config calls (successful
\* or failing) and environment loads, the global configuration satisfies
\* start_k <= max_k and relevance_threshold >= min_relevance.
C4_ConfigInvariantAlways ==
    phase = "ready" => ConfigInvariant(ADAPTIVE_CONFIG)

\* C5: a rejected update changes nothing: when update_adaptive_config fails,
\* every field of the global configuration has the value it had before the call.
C5_RejectedUpdateChangesNothing ==
    (last.op = "update" /\ last.error # Ok) => ADAPTIVE_CONFIG = last.before

(***************************************************************************)
(* SpecCache: any sequence of get, set and clear calls on one QueryCache.  *)
(* hist observes the calls: how many gets were made and how many found     *)
(* their key since construction or the last clear, when each key was last  *)
(* accessed, and the instance as it was before the last call.              *)
(***************************************************************************)
MaxCapacity == 2

MaxCacheOps == 5

CacheKeys == {"k1", "k2", "k3", "k4"}

CacheValues == {"v1", "v2"}

InitCache ==
    /\ \E cap \in 1..MaxCapacity : query_cache = NewQueryCache(cap)
    /\ hist = [op |-> "new", key |-> None, n |-> 0, gets |-> 0, found |-> 0,
               stamp |-> [k \in CacheKeys |-> 0], before |-> NewQueryCache(0)]
    /\ threads = IdleThreads
    /\ ADAPTIVE_CONFIG = DefaultConfig
    /\ phase = "ready"
    /\ updates = 0
    /\ last = IdleLast
    /\ composing = IdleComposing
    /\ analysis = IdleAnalysis
    /\ PROFILE_CONFIGS = DefaultProfiles
    /\ pack_files = NoPackFiles
    /\ retriever = IdleRetriever
    /\ calls = 0

CacheGet(key) ==
    /\ hist.n < MaxCacheOps
    /\ query_cache' = QueryCache_get(query_cache, key).self
    /\ hist' = [hist EXCEPT
                  !.op = "get", !.key = key, !.n = @ + 1,
                  !.gets = @ + 1,
                  !.found = IF \E i \in 1..Len(query_cache.cache) :
                                    query_cache.cache[i].key = key
                            THEN @ + 1 ELSE @,
                  !.stamp = IF \E i \in 1..Len(query_cache.cache) :
                                    query_cache.cache[i].key = key
                            THEN [@ EXCEPT ![key] = hist.n + 1] ELSE @,
                  !.before = query_cache]
    /\ UNCHANGED <<threads, configVars, composing, analysis, retrieverVars>>

CacheSet(key, value) ==
    /\ hist.n < MaxCacheOps
    /\ query_cache' = QueryCache_set(query_cache, key, value)
    /\ hist' = [hist EXCEPT
                  !.op = "set", !.key = key, !.n = @ + 1,
                  !.stamp = [@ EXCEPT ![key] = hist.n + 1],
                  !.before = query_cache]
    /\ UNCHANGED <<threads, configVars, composing, analysis, retrieverVars>>

CacheClear ==
    /\ hist.n < MaxCacheOps
    /\ query_cache' = QueryCache_clear(query_cache)
    /\ hist' = [hist EXCEPT
                  !.op = "clear", !.key = None, !.n = @ + 1,
                  !.gets = 0, !.found = 0,
                  !.before = query_cache]
    /\ UNCHANGED <<threads, configVars, composing, analysis, retrieverVars>>

NextCache ==
    \/ \E key \in CacheKeys : CacheGet(key)
    \/ \E key \in CacheKeys, value \in CacheValues : CacheSet(key, value)
    \/ CacheClear

SpecCache == InitCache /\ [][NextCache]_vars
(***************************************************************************)
(* Claims on the QueryCache, checked under SpecCache.                      *)
(***************************************************************************)
\* the last call was a set of an absent key on a full cache
SetOnFullCache ==
    /\ hist.op = "set"
    /\ hist.key \notin Keys(hist.before.cache)
    /\ Len(hist.before.cache) = hist.before.max_size

\* the key of the instance `before` whose most recent access is the oldest
LeastRecentlyAccessed(before) ==
    CHOOSE k \in Keys(before.cache) :
        \A j \in Keys(before.cache) \ {k} : hist.stamp[k] < hist.stamp[j]

\* C9: a set of a key that is not present while the cache is full removes
\* exactly one entry, the one whose most recent access (a get that hit it or a
\* set of it) is the oldest, and keeps every other entry with its value.
C9_EvictsLeastRecentlyAccessed ==
    SetOnFullCache =>
        LET before == hist.before
            victim == LeastRecentlyAccessed(before)
        IN  /\ \E k \in Keys(before.cache) :
                   \A j \in Keys(before.cache) \ {k} : hist.stamp[k] < hist.stamp[j]
            /\ Keys(query_cache.cache) = (Keys(before.cache) \ {victim}) \cup {hist.key}
            /\ Len(query_cache.cache) = Len(before.cache)
            /\ \A k \in Keys(before.cache) \ {victim} :
                   ValueOf(query_cache.cache, k) = ValueOf(before.cache, k)

\* an eviction from a cache of two entries after some get has hit
C9_Witness ==
    /\ SetOnFullCache
    /\ hist.before.max_size = 2
    /\ hist.found > 0
    /\ Keys(query_cache.cache) # Keys(hist.before.cache)

\* C10: total_queries is the number of get calls since construction or the
\* last clear, hits the number of those that found their key, hits <=
\* total_queries, get_hit_rate is hits / total_queries (0 without a lookup),
\* and a set changes neither counter.
C10_CountersMatchCalls ==
    /\ query_cache.total_queries = hist.gets
    /\ query_cache.hits = hist.found
    /\ query_cache.hits <= query_cache.total_queries
    /\ LET rate == QueryCache_get_hit_rate(query_cache)
       IN  IF hist.gets = 0
           THEN rate.num = 0
           ELSE rate.num * hist.gets = hist.found * rate.den
    /\ hist.op = "set" =>
           /\ query_cache.hits = hist.before.hits
           /\ query_cache.total_queries = hist.before.total_queries

\* a set made after lookups of which some hit and some missed
C10_Witness ==
    /\ hist.op = "set"
    /\ hist.found >= 1
    /\ hist.gets > hist.found
    /\ query_cache.hits = hist.found

(***************************************************************************)
(* SpecCompose: one ContextComposer, built with a token budget, composes a *)
(* chunk list and then composes its own output again.                      *)
(***************************************************************************)
MaxChunks == 3

RECURSIVE Repeat(_, _)
Repeat(str, n) == IF n <= 0 THEN "" ELSE str \o Repeat(str, n - 1)

\* four words in 12 characters: 3 tokens
TextFourWords == "aa bb cc dd "

\* the same four words over 204 characters, then two more: 52 tokens
TextFourWordsAndMore == Repeat("aa bb cc dd ", 17) \o "ee ff"

\* one word of 220 characters: 55 tokens
TextOneLongWord == Repeat("xxxxxxxxxx", 22)

ChunkChoices ==
    {[id |-> "a1", text |-> "alpha beta", source |-> "index", score |-> 90, label |-> "C1"],
     [id |-> "a2", text |-> "Alpha  BETA", source |-> "index", score |-> 90, label |-> "C2"],
     [id |-> "g2", text |-> "gamma delta", source |-> "index", score |-> 50, label |-> "C3"],
     [id |-> "e1", text |-> "", source |-> "pack", score |-> 90, label |-> "C1"],
     [id |-> "f1", text |-> TextFourWords, source |-> "index", score |-> 90, label |-> "C1"],
     [id |-> "f2", text |-> TextFourWordsAndMore, source |-> "index", score |-> 50,
      label |-> "C2"],
     [id |-> "x1", text |-> TextOneLongWord, source |-> "index", score |-> 50,
      label |-> "C1"]}

BudgetChoices == {2, 54, 1100}

\* lists of at most MaxChunks different chunks
ChunkLists ==
    {chunks \in UNION {[1..n -> ChunkChoices] : n \in 0..MaxChunks} :
        \A i, j \in 1..Len(chunks) : i # j => chunks[i] # chunks[j]}

InitCompose ==
    /\ \E chunks \in ChunkLists, max_tokens \in BudgetChoices :
           composing = [stage |-> "new", max_tokens |-> max_tokens, input |-> chunks,
                        sorted |-> <<>>, deduplicated |-> <<>>, trimmed |-> <<>>,
                        output |-> <<>>, again |-> <<>>]
    /\ query_cache = NewQueryCache(0)
    /\ hist = IdleHist
    /\ threads = IdleThreads
    /\ ADAPTIVE_CONFIG = DefaultConfig
    /\ phase = "ready"
    /\ updates = 0
    /\ last = IdleLast
    /\ analysis = IdleAnalysis
    /\ PROFILE_CONFIGS = DefaultProfiles
    /\ pack_files = NoPackFiles
    /\ retriever = IdleRetriever
    /\ calls = 0

\* composer.compose(chunks); the stage results are kept for inspection
ComposeCall ==
    /\ composing.stage = "new"
    /\ \E stages \in {ComposeStages(composing.input, composing.max_tokens)} :
           composing' = [composing EXCEPT
                           !.stage = "composed",
                           !.sorted = stages.sorted,
                           !.deduplicated = stages.deduplicated,
                           !.trimmed = stages.trimmed,
                           !.output = stages.labeled]
    /\ UNCHANGED <<cacheVars, configVars, analysis, retrieverVars>>

\* composer.compose(output of the first call)
ComposeAgain ==
    /\ composing.stage = "composed"
    /\ composing' = [composing EXCEPT
                       !.stage = "recomposed",
                       !.again = compose(composing.output, composing.max_tokens)]
    /\ UNCHANGED <<cacheVars, configVars, analysis, retrieverVars>>

NextCompose == ComposeCall \/ ComposeAgain

SpecCompose == InitCompose /\ [][NextCompose]_vars

(***************************************************************************)
(* Claims on the composer, checked under SpecCompose.                      *)
(***************************************************************************)
Composed == composing.stage \in {"composed", "recomposed"}

\* the first call truncated the text of its last chunk
LastChunkTruncated ==
    /\ Composed
    /\ composing.output # <<>>
    /\ LET n == Len(composing.output)
       IN  composing.output[n].text # composing.deduplicated[n].text

RECURSIVE SumTokens(_)
SumTokens(chunks) ==
    IF chunks = <<>> THEN 0
    ELSE (Len(Head(chunks).text) \div 4) + SumTokens(Tail(chunks))

\* a is b with some elements left out
RECURSIVE IsSubsequence(_, _)
IsSubsequence(a, b) ==
    IF a = <<>> THEN TRUE
    ELSE IF b = <<>> THEN FALSE
         ELSE IF Head(a) = Head(b)
              THEN IsSubsequence(Tail(a), Tail(b))
              ELSE IsSubsequence(a, Tail(b))

WordSet(text) == Range(Split(Lower(text)))

\* C6 as stated: composing is idempotent, compose(compose(L)) = compose(L),
\* the same chunks with the same texts, order and labels.
C6_ComposeIdempotent ==
    composing.stage = "recomposed" => composing.again = composing.output

\* C6 as amended: the second pass returns the first pass's list, except that a
\* last chunk the first pass truncated is dropped when its shortened text is a
\* near-duplicate (word-set Jaccard > 0.92) of a chunk kept before it; when the
\* first pass truncated nothing the second pass changes nothing.
C6_IdempotentUpToTruncatedChunk ==
    composing.stage = "recomposed" =>
        LET out == composing.output
            n == Len(out)
            lastIsNearDuplicate ==
                /\ LastChunkTruncated
                /\ \E j \in 1..n - 1 :
                       LET inter == Cardinality(WordSet(out[j].text) \cap WordSet(out[n].text))
                           union == Cardinality(WordSet(out[j].text) \cup WordSet(out[n].text))
                       IN  inter * 100 > 92 * union
        IN  IF lastIsNearDuplicate
            THEN composing.again = SubSeq(out, 1, n - 1)
            ELSE composing.again = out

\* a second pass over a list whose last chunk was truncated and survives
C6_Witness ==
    /\ composing.stage = "recomposed"
    /\ LastChunkTruncated
    /\ Len(composing.output) >= 2
    /\ composing.again = composing.output

\* C7: the sum over the returned chunks of floor(len(text) / 4) is at most
\* max_tokens, and equals max_tokens when the last chunk was truncated.
C7_WithinTokenBudget ==
    Composed =>
        /\ SumTokens(composing.output) <= composing.max_tokens
        /\ LastChunkTruncated => SumTokens(composing.output) = composing.max_tokens

\* a truncated chunk that follows a whole one
C7_Witness ==
    /\ LastChunkTruncated
    /\ Len(composing.output) >= 2
    /\ Len(composing.output[1].text) >= 4

\* C8: deduplication returns a subsequence of its input, never a longer list,
\* and every two chunks it retains have word-set Jaccard similarity <= 0.92 on
\* case-insensitive white-space tokens; each candidate is compared with all
\* the chunks already kept.
C8_DeduplicationSound ==
    Composed =>
        /\ IsSubsequence(composing.deduplicated, composing.sorted)
        /\ Len(composing.deduplicated) <= Len(composing.sorted)
        /\ \A i, j \in 1..Len(composing.deduplicated) :
               i < j =>
                 LET wi == WordSet(composing.deduplicated[i].text)
                     wj == WordSet(composing.deduplicated[j].text)
                 IN  Cardinality(wi \cap wj) * 100 <= 92 * Cardinality(wi \cup wj)

\* a near-duplicate dropped although the chunk kept just before it differs
C8_Witness ==
    /\ Composed
    /\ Len(composing.sorted) = 3
    /\ Len(composing.deduplicated) = 2
    /\ composing.sorted[1].text = "alpha beta"
    /\ composing.sorted[2].text = ""
    /\ composing.sorted[3].text = "Alpha  BETA"

(***************************************************************************)
(* Spec: a DynamicRetriever built on some valid global configuration, then *)
(* any sequence of retrieve, add_profile and remove_profile calls.         *)
(***************************************************************************)
MaxCalls == 2

\* keyword arguments of update_adaptive_config calls made before the retriever is built
RetrieverKwargs ==
    << <<>>,
       <<[key |-> "start_k", value |-> 1]>>,
       <<[key |-> "cache_sizes",
          value |-> [DefaultConfig.cache_sizes EXCEPT !.query = 1]]>>,
       <<[key |-> "start_k", value |-> 1], [key |-> "max_k", value |-> 1]>>,
       <<[key |-> "widen_by", value |-> -1]>> >>

\* the loaded index data: three chunks, and for each query their similarities
md_chunks == <<"alpha beta", "gamma delta", "Alpha  BETA">>

md_filenames == <<"a.md", "b.md", "c.md">>

Similarities ==
    [strong |-> <<[idx |-> 1, sim |-> 90], [idx |-> 2, sim |-> 50], [idx |-> 3, sim |-> 20]>>,
     weak |-> <<[idx |-> 2, sim |-> 40], [idx |-> 3, sim |-> 36], [idx |-> 1, sim |-> 10]>>,
     none |-> <<[idx |-> 3, sim |-> 25], [idx |-> 2, sim |-> 20], [idx |-> 1, sim |-> 5]>>,
     twins |-> <<[idx |-> 1, sim |-> 90], [idx |-> 3, sim |-> 60], [idx |-> 2, sim |-> 50]>>,
     faint |-> <<[idx |-> 2, sim |-> 40], [idx |-> 1, sim |-> 38], [idx |-> 3, sim |-> 36]>>]

RetrieveQueries == DOMAIN Similarities

\* a pack file whose second record has no id
SmallPack ==
    <<[id |-> "defs:one", text |-> "alpha beta"], [id |-> None, text |-> "gamma delta"]>>

PackFileChoices == {MissingFile, FileWith(<<>>), FileWith(SmallPack)}

\* an index profile that is not widenable, registered by add_profile
FixedProfile ==
    [name |-> "fixed", source |-> "index", index_name |-> "fixed", pack_file |-> None,
     widenable |-> FALSE, priority |-> 5, max_chunks |-> 5, similarity_threshold |-> 35,
     relevance_boost |-> 0]

RetrieveProfiles == {"theorem", "defs", "fixed"}

\* the k argument; 0 is an omitted k
KChoices == {0, 1}

\* DynamicRetriever.__init__ after the module imports
Init ==
    /\ \E i \in 1..Len(RetrieverKwargs), file \in PackFileChoices :
           LET config == update_adaptive_config(DefaultConfig, RetrieverKwargs[i]).config
           IN  /\ ADAPTIVE_CONFIG = config
               /\ query_cache = NewQueryCache(config.cache_sizes.query)
               /\ retriever = [max_tokens |-> config.max_context_tokens,
                               md_chunks |-> md_chunks,
                               md_filenames |-> md_filenames,
                               similarities |-> Similarities]
               /\ pack_files = [path \in PackPaths |-> file]
    /\ PROFILE_CONFIGS = DefaultProfiles
    /\ calls = 0
    /\ last = IdleLast
    /\ hist = IdleHist
    /\ threads = IdleThreads
    /\ phase = "ready"
    /\ updates = 0
    /\ composing = IdleComposing
    /\ analysis = IdleAnalysis

\* retriever.retrieve(query, profile, k)
Retrieve(query, profile, k_arg) ==
    /\ calls < MaxCalls
    /\ \E r \in {retrieve(retriever, PROFILE_CONFIGS, query_cache, pack_files,
                          ADAPTIVE_CONFIG, query, profile, k_arg, <<>>)} :
           LET stored == r.cache_key \in Keys(query_cache.cache)
               \* the same call made with another query text, where it also has to
               \* load the pack, returns the same list
               any_query == \A other \in RetrieveQueries :
                                LET o == retrieve(retriever, PROFILE_CONFIGS, query_cache,
                                                  pack_files, ADAPTIVE_CONFIG, other,
                                                  profile, k_arg, <<>>)
                                IN  o.loaded_pack => o.ret = r.ret
           IN
           /\ query_cache' = r.query_cache
           /\ pack_files' = r.files
           /\ last' = [op |-> "retrieve", query |-> query, profile |-> profile,
                       k_arg |-> k_arg, error |-> r.error, ret |-> r.ret, k |-> r.k,
                       registered |-> profile \in DOMAIN PROFILE_CONFIGS,
                       cache_before |-> query_cache,
                       files_before |-> pack_files,
                       any_query |-> IF r.loaded_pack THEN any_query ELSE TRUE,
                       stored |-> stored,
                       stored_value |-> IF stored
                                        THEN ValueOf(query_cache.cache, r.cache_key)
                                        ELSE <<>>,
                       source |-> r.source, widenable |-> r.widenable,
                       relevance_threshold |-> ADAPTIVE_CONFIG.relevance_threshold,
                       loaded_pack |-> r.loaded_pack, composed |-> r.composed,
                       searches |-> r.index_work.searches, kept |-> r.index_work.kept,
                       initial |-> r.index_work.initial,
                       handed |-> r.index_work.handed,
                       used_widening |-> r.index_work.used_widening,
                       mean |-> r.index_work.mean]
    /\ calls' = calls + 1
    /\ UNCHANGED <<hist, threads, ADAPTIVE_CONFIG, phase, updates, composing, analysis,
                   PROFILE_CONFIGS, retriever>>

\* add_profile(name, config)
AddProfile(name, config) ==
    /\ calls < MaxCalls
    /\ ProfileConfig_post_init(config) = Ok
    /\ PROFILE_CONFIGS' = add_profile(PROFILE_CONFIGS, name, config)
    /\ last' = [op |-> "add_profile", name |-> name, error |-> Ok]
    /\ calls' = calls + 1
    /\ UNCHANGED <<cacheVars, ADAPTIVE_CONFIG, phase, updates, composing, analysis,
                   pack_files, retriever>>

\* remove_profile(name)
RemoveProfile(name) ==
    /\ calls < MaxCalls
    /\ LET r == remove_profile(PROFILE_CONFIGS, name)
       IN  /\ PROFILE_CONFIGS' = r.registry
           /\ last' = [op |-> "remove_profile", name |-> name, error |-> r.error]
    /\ calls' = calls + 1
    /\ UNCHANGED <<cacheVars, ADAPTIVE_CONFIG, phase, updates, composing, analysis,
                   pack_files, retriever>>

Next ==
    \/ \E query \in RetrieveQueries, profile \in RetrieveProfiles, k_arg \in KChoices :
           Retrieve(query, profile, k_arg)
    \/ AddProfile(FixedProfile.name, FixedProfile)
    \/ RemoveProfile(FixedProfile.name)

Spec == Init /\ [][Next]_vars

\* the last call was a retrieve on a registered profile
Retrieved == last.op = "retrieve" /\ last.error = Ok

\* C1: once a retrieve call has stored a composed list under profile::query and the
\* entry is still in the cache, a later retrieve call with the same profile and
\* query returns the stored list without loading a pack, searching the index or
\* running the composer, whatever the stored list is (an empty list included).
C1_StoredListShortCircuits ==
    (Retrieved /\ last.stored) =>
        /\ last.ret = last.stored_value
        /\ ~last.loaded_pack
        /\ last.searches = <<>>
        /\ ~last.composed

\* C3: in a retrieve call on an index profile that is not served from the cache,
\* the index is searched a second time if and only if the profile is widenable,
\* the mean of the kept boosted scores is below config.relevance_threshold and
\* fewer than k results were kept; otherwise it is searched once.
C3_WideningIffThreeConditions ==
    (Retrieved /\ last.source = "index" /\ last.composed) =>
        /\ Len(last.searches) \in {1, 2}
        /\ Len(last.searches) = 2 <=>
              /\ last.widenable
              /\ last.mean.num < last.relevance_threshold * last.mean.den
              /\ last.kept < last.k

\* a widenable profile kept one result of low relevance and searched again
C3_Witness ==
    /\ Retrieved
    /\ last.source = "index"
    /\ ~last.stored
    /\ last.widenable
    /\ last.kept = 1
    /\ last.kept < last.k
    /\ 0 < last.mean.num
    /\ last.mean.num < last.relevance_threshold * last.mean.den
    /\ Len(last.searches) = 2

\* the i-th chunk of the list carries the label 'C' followed by i
LabelledInOrder(chunks) ==
    \A i \in 1..Len(chunks) : chunks[i].label = "C" \o ToString(i)

\* C11: every list returned by compose or by retrieve (pack or index profile,
\* cache miss or cache hit), of any length n >= 0, carries the labels C1..Cn in
\* list order, with no gap and no repeat.
C11_LabelsContiguous ==
    /\ Retrieved => LabelledInOrder(last.ret)
    /\ Composed => LabelledInOrder(composing.output)
    /\ composing.stage = "recomposed" => LabelledInOrder(composing.again)

\* a cache hit returns two chunks, the second of which was the third result of the
\* search and was labelled C3 before the composer dropped the near-duplicate ahead
\* of it
C11_Witness ==
    /\ Retrieved
    /\ last.query = "twins"
    /\ last.source = "index"
    /\ last.stored
    /\ ~last.composed
    /\ Len(last.ret) = 2
    /\ last.ret[2].id = md_filenames[Similarities.twins[3].idx]

(***************************************************************************)
(* SpecAnalyzer: one analyze_query call on a QueryAnalyzer whose embedding *)
(* model loaded, failed to load, or raises while encoding.                 *)
(***************************************************************************)
MaxQueryWords == 2

SimpleLiteralQuery == "What is 2 + 2?"

ComplexLiteralQuery ==
    "Prove the Central Limit Theorem and explain its applications in probability theory"

QueryWords == {"What", "is", "2 + 2?", "Prove", "theorem", "x = 1", "example"}

AnalyzerQueries ==
    {SimpleLiteralQuery, ComplexLiteralQuery}
    \cup {JoinWith(words, " ") : words \in UNION {[1..n -> QueryWords] : n \in 0..MaxQueryWords}}

EmbeddingModelStates == {"loaded", "unavailable", "raises"}

InitAnalyzer ==
    /\ \E query \in AnalyzerQueries, embedding_model \in EmbeddingModelStates :
           analysis = [stage |-> "new", query |-> query,
                       embedding_model |-> embedding_model,
                       recommendation |-> None,
                       complexity_score |-> [num |-> 0, den |-> 1],
                       confidence |-> [num |-> 0, den |-> 1],
                       semantic_complexity |-> [num |-> 0, den |-> 1],
                       reasoning |-> ""]
    /\ query_cache = NewQueryCache(0)
    /\ hist = IdleHist
    /\ threads = IdleThreads
    /\ ADAPTIVE_CONFIG = DefaultConfig
    /\ phase = "ready"
    /\ updates = 0
    /\ last = IdleLast
    /\ composing = IdleComposing
    /\ PROFILE_CONFIGS = DefaultProfiles
    /\ pack_files = NoPackFiles
    /\ retriever = IdleRetriever
    /\ calls = 0

\* analyzer.analyze_query(query)
Analyze ==
    /\ analysis.stage = "new"
    /\ LET verdict == analyze_query(analysis.query, analysis.embedding_model)
       IN  analysis' = [analysis EXCEPT
                          !.stage = "analyzed",
                          !.recommendation = verdict.recommendation,
                          !.complexity_score = verdict.complexity_score,
                          !.confidence = verdict.confidence,
                          !.semantic_complexity = verdict.features.semantic_complexity,
                          !.reasoning = verdict.reasoning]
    /\ UNCHANGED <<cacheVars, configVars, composing, retrieverVars>>

NextAnalyzer == Analyze

SpecAnalyzer == InitAnalyzer /\ [][NextAnalyzer]_vars

\* C2: under the default configuration the analyzer's recommendation for the
\* literal query "What is 2 + 2?" is "direct".
C2_SimpleQueryRoutesDirect ==
    (analysis.stage = "analyzed" /\ analysis.query = SimpleLiteralQuery) =>
        analysis.recommendation = "direct"

\* a call of compose on a single chunk whose estimated token count exceeds the budget
SingleOversizedChunk ==
    /\ Composed
    /\ Len(composing.input) = 1
    /\ Len(composing.input[1].text) \div 4 > composing.max_tokens

\* C16: for every token budget max_tokens and every input list made of a single
\* chunk whose estimated token count floor(len(text) / 4) exceeds max_tokens,
\* compose returns exactly one chunk, whose text is the first max_tokens * 4
\* characters of the input text.
C16_SingleChunkTruncated ==
    SingleOversizedChunk =>
        /\ Len(composing.output) = 1
        /\ composing.output[1].text
               = Slice(composing.input[1].text, composing.max_tokens * 4)

\* C16 as amended: the single oversized chunk is returned truncated to the first
\* max_tokens * 4 characters when max_tokens > 50; for a budget of 50 tokens or
\* fewer compose returns the empty list.
C16_SingleChunkTruncatedAboveFifty ==
    SingleOversizedChunk =>
        IF composing.max_tokens > 50
        THEN /\ Len(composing.output) = 1
             /\ composing.output[1].text
                    = Slice(composing.input[1].text, composing.max_tokens * 4)
             /\ Len(composing.output[1].text) = composing.max_tokens * 4
        ELSE composing.output = <<>>

\* the 220-character chunk alone under a budget of 54 tokens: 216 characters
C16_Witness ==
    /\ SingleOversizedChunk
    /\ composing.max_tokens = 54
    /\ composing.input[1].text = TextOneLongWord
    /\ Len(composing.output) = 1
    /\ Len(composing.output[1].text) = 216

\* C17: in one retrieve call the vector index is searched at most twice: not at
\* all on a cache hit or for a pack-sourced profile, exactly once on an index
\* miss without widening, and exactly twice when widening triggers; the widened
\* search is never widened again.
C17_SearchesPerCall ==
    Retrieved =>
        LET widening == /\ last.widenable
                        /\ last.mean.num < last.relevance_threshold * last.mean.den
                        /\ last.kept < last.k
        IN  /\ Len(last.searches) <= 2
            /\ (last.stored \/ last.source = "pack") => Len(last.searches) = 0
            /\ (~last.stored /\ last.source = "index") =>
                   Len(last.searches) = IF widening THEN 2 ELSE 1

\* the positions of the deduplicated list at which the running total of
\* floor(len(text) / 4) goes over the budget
OverflowPositions ==
    {i \in 1..Len(composing.deduplicated) :
        SumTokens(SubSeq(composing.deduplicated, 1, i)) > composing.max_tokens}

\* C21: the budget-trim stage returns a prefix of the deduplicated list in which
\* only the last chunk may have a shortened text: the first chunk that would
\* overflow the budget is appended truncated to remaining_tokens * 4 characters
\* only when the remaining budget is above 50 tokens and is dropped otherwise,
\* and no chunk after that first overflowing chunk appears in the output, even
\* one small enough to fit.
C21_TrimStopsAtFirstOverflow ==
    Composed =>
        LET deduplicated == composing.deduplicated
            trimmed == composing.trimmed
        IN  IF OverflowPositions = {}
            THEN trimmed = deduplicated
            ELSE LET first == CHOOSE i \in OverflowPositions :
                                  \A j \in OverflowPositions : i <= j
                     remaining == composing.max_tokens
                                  - SumTokens(SubSeq(deduplicated, 1, first - 1))
                 IN  /\ SubSeq(trimmed, 1, first - 1) = SubSeq(deduplicated, 1, first - 1)
                     /\ IF remaining > 50
                        THEN /\ Len(trimmed) = first
                             /\ trimmed[first].id = deduplicated[first].id
                             /\ trimmed[first].score = deduplicated[first].score
                             /\ trimmed[first].text
                                    = SubSeq(deduplicated[first].text, 1, remaining * 4)
                        ELSE Len(trimmed) = first - 1

\* under a budget of 2 tokens the first chunk (3 tokens) is dropped and the
\* second one (2 tokens), which would fit, is not looked at
C21_Witness ==
    /\ Composed
    /\ composing.max_tokens = 2
    /\ Len(composing.deduplicated) = 2
    /\ composing.deduplicated[1].text = TextFourWords
    /\ composing.deduplicated[2].text = "alpha beta"
    /\ composing.trimmed = <<>>

\* the place of the chunk with this id in the list given to compose
InputPosition(id) == CHOOSE i \in 1..Len(composing.input) : composing.input[i].id = id

\* C25: the chunks returned by compose are in non-increasing order of score, and
\* chunks with equal scores keep the relative order they had in the input list.
C25_SortedStable ==
    Composed =>
        \A i, j \in 1..Len(composing.output) :
            i < j =>
                /\ composing.output[i].score >= composing.output[j].score
                /\ composing.output[i].score = composing.output[j].score
                       => InputPosition(composing.output[i].id)
                              < InputPosition(composing.output[j].id)

\* two chunks of equal score arrive after a chunk of lower score and come out
\* ahead of it, in their order of arrival
C25_Witness ==
    /\ Composed
    /\ Len(composing.input) = 3
    /\ Len(composing.output) = 3
    /\ composing.input[1].score < composing.input[2].score
    /\ composing.input[2].score = composing.input[3].score
    /\ composing.output[1].id = composing.input[2].id
    /\ composing.output[2].id = composing.input[3].id
    /\ composing.output[3].id = composing.input[1].id

\* C22: every list returned by retrieve(query, profile, k) has at most k chunks,
\* where k is the argument or, when it is omitted, the profile's max_chunks; for
\* pack and index profiles, for cache misses and cache hits (a hit on an entry
\* stored by an earlier call with a different k included).
C22_AtMostKChunks ==
    Retrieved => Len(last.ret) <= last.k

\* C23: for every configuration accepted by validation and every k, no index
\* search issued by retrieve (initial or widened) requests more than
\* config.max_k neighbours.
C23_SearchesWithinMaxK ==
    (Retrieved /\ AdaptiveConfig_post_init(ADAPTIVE_CONFIG) = Ok) =>
        \A i \in 1..Len(last.searches) : last.searches[i] <= ADAPTIVE_CONFIG.max_k

\* C24: when widening triggers, the second search requests exactly
\* min(config.start_k + config.widen_by, k, index_size) neighbours, for every
\* k >= 1 and every configuration accepted by validation.
C24_WidenedRequestSize ==
    (/\ Retrieved
     /\ AdaptiveConfig_post_init(ADAPTIVE_CONFIG) = Ok
     /\ last.k >= 1
     /\ Len(last.searches) = 2) =>
        last.searches[2]
            = Min2(ADAPTIVE_CONFIG.start_k + ADAPTIVE_CONFIG.widen_by,
                   Min2(last.k, Len(retriever.md_chunks)))

\* C30: when progressive widening triggers on a deterministic index, every
\* candidate kept by the initial search is also among the candidates kept after
\* widening, so widening never reduces the number of chunks handed to the
\* composer, and that number is at most k.
C30_WideningKeepsCandidates ==
    (Retrieved /\ last.used_widening) =>
        /\ \A i \in 1..Len(last.initial) :
               retriever.md_filenames[last.initial[i]] \in Range(last.handed)
        /\ Len(last.handed) >= Len(last.initial)
        /\ Len(last.handed) <= last.k

\* the pack array read by the last retrieve call (the default definitions when
\* the file did not exist) and the ids its records get
PackArrayRead ==
    LET file == last.files_before[PROFILE_CONFIGS[last.profile].pack_file]
    IN  IF file.exists THEN file.data ELSE default_definitions

PackArrayIds ==
    [i \in 1..Len(PackArrayRead) |->
        IF PackArrayRead[i].id = None THEN "pack_" \o ToString(i - 1)
        ELSE PackArrayRead[i].id]

\* C20: for a pack-sourced profile on a cache miss, every returned chunk has
\* source 'pack' and score 1.0, the chunks keep the relative order of the
\* records in the pack array, and the result does not depend on the query text.
C20_PackResultUniformOrdered ==
    (Retrieved /\ last.loaded_pack) =>
        /\ \A j \in 1..Len(last.ret) :
               last.ret[j].source = "pack" /\ last.ret[j].score = 100
        /\ IsSubsequence([j \in 1..Len(last.ret) |-> last.ret[j].id], PackArrayIds)
        /\ last.any_query

\* the two records of the small pack, the second under its default id
C20_Witness ==
    /\ Retrieved
    /\ last.loaded_pack
    /\ ~last.stored
    /\ PackArrayRead = SmallPack
    /\ Len(last.ret) = 2
    /\ last.ret[1].id = "defs:one"
    /\ last.ret[2].id = "pack_1"

\* C28: after any sequence of get, set and clear calls on a QueryCache built
\* with capacity >= 1, the number of stored entries is at most the capacity, and
\* a get that misses changes neither the stored entries nor their recency order.
C28_BoundedAndMissesReadOnly ==
    /\ query_cache.max_size >= 1 => Len(query_cache.cache) <= query_cache.max_size
    /\ (hist.op = "get" /\ hist.key \notin Keys(hist.before.cache)) =>
           query_cache.cache = hist.before.cache

\* a get misses on a full cache of two entries that has already evicted one
C28_Witness ==
    /\ hist.op = "get"
    /\ hist.key \notin Keys(hist.before.cache)
    /\ hist.before.max_size = 2
    /\ Len(hist.before.cache) = 2
    /\ hist.n = 4
    /\ Len(query_cache.cache) = 2

(***************************************************************************)
(* SpecCacheRace: two callers run get and set on one QueryCache in         *)
(* parallel.  The class holds no lock, so a caller can be preempted        *)
(* between any two statements of get (lines 20-27) and of set (lines       *)
(* 33-40); each action below is one statement of one caller.  threads maps *)
(* a caller to its position in the method, the arguments of its call, the  *)
(* local `value` of get, and whether its last call raised.                 *)
(***************************************************************************)
MaxThreadOps == 2

Threads == {"t1", "t2"}

RaceKeys == {"k1", "k2"}

RaceValues == {"v1", "v2"}

IdleThread == [pc |-> "idle", key |-> None, value |-> None, failed |-> FALSE, done |-> 0]

InitCacheRace ==
    /\ \E cap \in 1..MaxCapacity : query_cache = NewQueryCache(cap)
    /\ threads = [t \in Threads |-> IdleThread]
    /\ hist = IdleHist
    /\ ADAPTIVE_CONFIG = DefaultConfig
    /\ phase = "ready"
    /\ updates = 0
    /\ last = IdleLast
    /\ composing = IdleComposing
    /\ analysis = IdleAnalysis
    /\ PROFILE_CONFIGS = DefaultProfiles
    /\ pack_files = NoPackFiles
    /\ retriever = IdleRetriever
    /\ calls = 0

\* the frame of every statement: only the cache and the callers change
RaceFrame == UNCHANGED <<hist, configVars, composing, analysis, retrieverVars>>

\* the caller leaves the method, by a return or by an exception
Leave(t, failed) ==
    [threads EXCEPT ![t] = [@ EXCEPT !.pc = "idle", !.failed = failed, !.done = @ + 1]]

Goto(t, pc) == [threads EXCEPT ![t] = [@ EXCEPT !.pc = pc]]

\* self.cache[key] = value: an existing key keeps its position
SetItem(od, key, value) ==
    IF key \in Keys(od)
    THEN [i \in 1..Len(od) |-> IF od[i].key = key THEN [key |-> key, value |-> value]
                                                  ELSE od[i]]
    ELSE Append(od, [key |-> key, value |-> value])

\* a caller enters get(key)
CallGet(t, key) ==
    /\ threads[t].pc = "idle"
    /\ threads[t].done < MaxThreadOps
    /\ threads' = [threads EXCEPT ![t] = [@ EXCEPT !.pc = "get_count", !.key = key,
                                                    !.value = None, !.failed = FALSE]]
    /\ UNCHANGED query_cache
    /\ RaceFrame

\* line 20: self.total_queries += 1
GetCount(t) ==
    /\ threads[t].pc = "get_count"
    /\ query_cache' = [query_cache EXCEPT !.total_queries = @ + 1]
    /\ threads' = Goto(t, "get_test")
    /\ RaceFrame

\* line 22: if key in self.cache; line 29: return None
GetTest(t) ==
    /\ threads[t].pc = "get_test"
    /\ threads' = IF threads[t].key \in Keys(query_cache.cache)
                  THEN Goto(t, "get_pop")
                  ELSE Leave(t, FALSE)
    /\ UNCHANGED query_cache
    /\ RaceFrame

\* line 24: value = self.cache.pop(key), KeyError when the key is gone
GetPop(t) ==
    /\ threads[t].pc = "get_pop"
    /\ IF threads[t].key \in Keys(query_cache.cache)
       THEN /\ query_cache' = [query_cache EXCEPT !.cache = Pop(@, threads[t].key)]
            /\ threads' = [threads EXCEPT ![t] =
                              [@ EXCEPT !.pc = "get_insert",
                                        !.value = ValueOf(query_cache.cache, threads[t].key)]]
       ELSE /\ UNCHANGED query_cache
            /\ threads' = Leave(t, TRUE)
    /\ RaceFrame

\* line 25: self.cache[key] = value
GetInsert(t) ==
    /\ threads[t].pc = "get_insert"
    /\ query_cache' = [query_cache EXCEPT
                         !.cache = SetItem(@, threads[t].key, threads[t].value)]
    /\ threads' = Goto(t, "get_hit")
    /\ RaceFrame

\* lines 26-27: self.hits += 1; return value
GetHit(t) ==
    /\ threads[t].pc = "get_hit"
    /\ query_cache' = [query_cache EXCEPT !.hits = @ + 1]
    /\ threads' = Leave(t, FALSE)
    /\ RaceFrame

\* a caller enters set(key, value)
CallSet(t, key, value) ==
    /\ threads[t].pc = "idle"
    /\ threads[t].done < MaxThreadOps
    /\ threads' = [threads EXCEPT ![t] = [@ EXCEPT !.pc = "set_test", !.key = key,
                                                    !.value = value, !.failed = FALSE]]
    /\ UNCHANGED query_cache
    /\ RaceFrame

\* line 33: if key in self.cache
SetTest(t) ==
    /\ threads[t].pc = "set_test"
    /\ threads' = IF threads[t].key \in Keys(query_cache.cache)
                  THEN Goto(t, "set_pop")
                  ELSE Goto(t, "set_full")
    /\ UNCHANGED query_cache
    /\ RaceFrame

\* line 35: self.cache.pop(key), KeyError when the key is gone
SetPop(t) ==
    /\ threads[t].pc = "set_pop"
    /\ IF threads[t].key \in Keys(query_cache.cache)
       THEN /\ query_cache' = [query_cache EXCEPT !.cache = Pop(@, threads[t].key)]
            /\ threads' = Goto(t, "set_insert")
       ELSE /\ UNCHANGED query_cache
            /\ threads' = Leave(t, TRUE)
    /\ RaceFrame

\* line 36: elif len(self.cache) >= self.max_size
SetFull(t) ==
    /\ threads[t].pc = "set_full"
    /\ threads' = IF Len(query_cache.cache) >= query_cache.max_size
                  THEN Goto(t, "set_evict")
                  ELSE Goto(t, "set_insert")
    /\ UNCHANGED query_cache
    /\ RaceFrame

\* line 38: self.cache.popitem(last=False), KeyError on an empty dict
SetEvict(t) ==
    /\ threads[t].pc = "set_evict"
    /\ IF query_cache.cache # <<>>
       THEN /\ query_cache' = [query_cache EXCEPT !.cache = Tail(@)]
            /\ threads' = Goto(t, "set_insert")
       ELSE /\ UNCHANGED query_cache
            /\ threads' = Leave(t, TRUE)
    /\ RaceFrame

\* line 40: self.cache[key] = value
SetInsert(t) ==
    /\ threads[t].pc = "set_insert"
    /\ query_cache' = [query_cache EXCEPT
                         !.cache = SetItem(@, threads[t].key, threads[t].value)]
    /\ threads' = Leave(t, FALSE)
    /\ RaceFrame

NextCacheRace ==
    \/ \E t \in Threads, key \in RaceKeys : CallGet(t, key)
    \/ \E t \in Threads : GetCount(t)
    \/ \E t \in Threads : GetTest(t)
    \/ \E t \in Threads : GetPop(t)
    \/ \E t \in Threads : GetInsert(t)
    \/ \E t \in Threads : GetHit(t)
    \/ \E t \in Threads, key \in RaceKeys, value \in RaceValues : CallSet(t, key, value)
    \/ \E t \in Threads : SetTest(t)
    \/ \E t \in Threads : SetPop(t)
    \/ \E t \in Threads : SetFull(t)
    \/ \E t \in Threads : SetEvict(t)
    \/ \E t \in Threads : SetInsert(t)

SpecCacheRace == InitCacheRace /\ [][NextCacheRace]_vars

\* C27: when two callers run get and set on the same QueryCache in parallel,
\* every call takes effect atomically: in every interleaving no call fails
\* with a missing-key error and the number of entries never exceeds max_size.
C27_ParallelCallsAtomic ==
    /\ \A t \in Threads : ~threads[t].failed
    /\ Len(query_cache.cache) <= query_cache.max_size

(***************************************************************************)
(* SpecVerdict: the scoring half of the analyzer on its own.  A feature    *)
(* dictionary is scored (_calculate_complexity_score and                   *)
(* _calculate_confidence), and a (score, confidence) pair, scored or given *)
(* directly, is turned into a recommendation (_make_recommendation).       *)
(***************************************************************************)
MaxKeywordCount == 3

WordCountChoices == {0, 10, 25}

QuestionTypes ==
    {"definition", "procedural", "explanatory", "example", "comparative", "general"}

SemanticChoices == {[num |-> 0, den |-> 1], Half, [num |-> 1, den |-> 1]}

FeatureChoices ==
    [query_length : WordCountChoices,
     has_math : BOOLEAN,
     complex_keywords : 0..MaxKeywordCount,
     simple_keywords : 0..MaxKeywordCount,
     question_type : QuestionTypes,
     has_equations : BOOLEAN,
     has_definitions : BOOLEAN,
     has_proofs : BOOLEAN,
     has_examples : BOOLEAN,
     semantic_complexity : SemanticChoices]

\* scores 0.00 .. 1.00 and confidences 0.10 .. 1.00 in steps of 0.01
ScoreGrid == {[num |-> n, den |-> 100] : n \in 0..100}

ConfidenceGrid == {[num |-> n, den |-> 100] : n \in 10..100}

NoFeatures == CHOOSE features \in FeatureChoices : TRUE

InitVerdict ==
    /\ \/ \E features \in FeatureChoices :
              analysis = [stage |-> "features", features |-> features,
                          complexity_score |-> [num |-> 0, den |-> 1],
                          confidence |-> [num |-> 0, den |-> 1],
                          recommendation |-> None]
       \/ \E complexity_score \in ScoreGrid, confidence \in ConfidenceGrid :
              analysis = [stage |-> "pair", features |-> NoFeatures,
                          complexity_score |-> complexity_score,
                          confidence |-> confidence,
                          recommendation |-> None]
    /\ query_cache = NewQueryCache(0)
    /\ hist = IdleHist
    /\ threads = IdleThreads
    /\ ADAPTIVE_CONFIG = DefaultConfig
    /\ phase = "ready"
    /\ updates = 0
    /\ last = IdleLast
    /\ composing = IdleComposing
    /\ PROFILE_CONFIGS = DefaultProfiles
    /\ pack_files = NoPackFiles
    /\ retriever = IdleRetriever
    /\ calls = 0

\* _calculate_complexity_score(features) and _calculate_confidence(features)
Score ==
    /\ analysis.stage = "features"
    /\ analysis' = [analysis EXCEPT
                      !.stage = "scored",
                      !.complexity_score = calculate_complexity_score(analysis.features),
                      !.confidence = calculate_confidence(analysis.features)]
    /\ UNCHANGED <<cacheVars, configVars, composing, retrieverVars>>

\* _make_recommendation(complexity_score, confidence, features)
Recommend ==
    /\ analysis.stage \in {"scored", "pair"}
    /\ analysis' = [analysis EXCEPT
                      !.stage = IF analysis.stage = "pair" THEN "pair recommended"
                                ELSE "recommended",
                      !.recommendation = make_recommendation(analysis.complexity_score,
                                                             analysis.confidence)]
    /\ UNCHANGED <<cacheVars, configVars, composing, retrieverVars>>

NextVerdict == Score \/ Recommend

SpecVerdict == InitVerdict /\ [][NextVerdict]_vars

\* C12: for every pair (complexity score in [0,1], confidence in [0.1,1]) the
\* recommendation is 'direct' exactly when (confidence > 0.8 and score < 0.3) or
\* (0.5 < confidence <= 0.8 and score < 0.2), and 'rag' in every other case;
\* 'uncertain' is never produced.
C12_RecommendationRule ==
    analysis.stage \in {"recommended", "pair recommended"} =>
        LET score == analysis.complexity_score
            confidence == analysis.confidence
            direct == \/ /\ 10 * confidence.num > 8 * confidence.den
                         /\ 10 * score.num < 3 * score.den
                      \/ /\ 10 * confidence.num > 5 * confidence.den
                         /\ 10 * confidence.num <= 8 * confidence.den
                         /\ 10 * score.num < 2 * score.den
        IN  analysis.recommendation = IF direct THEN "direct" ELSE "rag"

\* confidence exactly 0.8 falls in the lower band: a score of 0.25 goes to RAG
C12_Witness ==
    /\ analysis.stage = "pair recommended"
    /\ analysis.confidence = [num |-> 80, den |-> 100]
    /\ analysis.complexity_score = [num |-> 25, den |-> 100]
    /\ analysis.recommendation = "rag"

\* C19: for every combination of extracted features the verdict has
\* complexity_score in [0, 1] and confidence in [0.1, 1].
C19_VerdictRanges ==
    analysis.stage \in {"scored", "recommended"} =>
        /\ 0 <= analysis.complexity_score.num
        /\ analysis.complexity_score.num <= analysis.complexity_score.den
        /\ analysis.confidence.den <= 10 * analysis.confidence.num
        /\ analysis.confidence.num <= analysis.confidence.den

\* three simple keywords and nothing else: the weighted sum is negative (-0.07)
\* and the score is 0
C19_Witness ==
    /\ analysis.stage = "scored"
    /\ analysis.features.simple_keywords = 3
    /\ analysis.features.complex_keywords = 0
    /\ analysis.features.query_length = 0
    /\ analysis.features.question_type = "definition"
    /\ analysis.features.semantic_complexity.num = 0
    /\ ~analysis.features.has_math
    /\ ~analysis.features.has_equations
    /\ ~analysis.features.has_definitions
    /\ ~analysis.features.has_proofs
    /\ ~analysis.features.has_examples
    /\ analysis.complexity_score.num = 0

\* C13: under the default configuration the analyzer's recommendation for the
\* literal query "Prove the Central Limit Theorem and explain its applications
\* in probability theory" is "rag".
C13_ComplexQueryRoutesRag ==
    (analysis.stage = "analyzed" /\ analysis.query = ComplexLiteralQuery)
        => analysis.recommendation = "rag"

\* the complex literal analyzed with the embedding model loaded
C13_Witness ==
    /\ analysis.stage = "analyzed"
    /\ analysis.query = ComplexLiteralQuery
    /\ analysis.embedding_model = "loaded"
    /\ analysis.recommendation = "rag"

\* C18: analyze_query returns a verdict for every query string (the empty
\* string included) whether the embedding model loaded, failed to load or
\* raises while encoding; when the model is unavailable or raises, the
\* semantic-complexity feature is exactly 0.5.
C18_DegradedAnalysis ==
    analysis.stage = "analyzed" =>
        /\ analysis.recommendation \in {"direct", "rag"}
        /\ analysis.reasoning # ""
        /\ analysis.embedding_model \in {"unavailable", "raises"}
               => analysis.semantic_complexity = Half

\* the empty query analyzed while the embedding model raises in encode
C18_Witness ==
    /\ analysis.stage = "analyzed"
    /\ analysis.query = ""
    /\ analysis.embedding_model = "raises"
    /\ analysis.semantic_complexity = Half
    /\ analysis.recommendation = "rag"

(***************************************************************************)
(* SpecProfiles: the profile registry with add_profile, remove_profile and *)
(* select_profile_for_query.                                               *)
(***************************************************************************)
NoMetadata == [given |-> FALSE, data |-> [key \in {} |-> ""]]

PreferredChoices == {"worked", FixedProfile.name, "unknown"}

ContentTypeChoices ==
    {"definition", "example", "exercise", "general", "theorem", "proof", ""}

MetadataChoices ==
    {NoMetadata}
    \cup {[given |-> TRUE, data |-> [key \in {} |-> ""]]}
    \cup {[given |-> TRUE, data |-> "preferred_profile" :> preferred] :
              preferred \in PreferredChoices}
    \cup {[given |-> TRUE, data |-> "content_type" :> content_type] :
              content_type \in ContentTypeChoices}
    \cup {[given |-> TRUE,
           data |-> "preferred_profile" :> preferred @@ "content_type" :> content_type] :
              preferred \in PreferredChoices, content_type \in ContentTypeChoices}

SelectQueries == {"what is a limit", "give an example of a proof"}

RemovableProfiles == {FixedProfile.name, "worked"}

InitProfiles ==
    /\ PROFILE_CONFIGS = DefaultProfiles
    /\ last = IdleLast
    /\ calls = 0
    /\ query_cache = NewQueryCache(0)
    /\ hist = IdleHist
    /\ threads = IdleThreads
    /\ ADAPTIVE_CONFIG = DefaultConfig
    /\ phase = "ready"
    /\ updates = 0
    /\ composing = IdleComposing
    /\ analysis = IdleAnalysis
    /\ pack_files = NoPackFiles
    /\ retriever = IdleRetriever

\* select_profile_for_query(query, query_metadata)
SelectProfile(query, query_metadata) ==
    /\ calls < MaxCalls
    /\ \E selected \in {select_profile_for_query(PROFILE_CONFIGS, query, query_metadata)} :
           last' = [op |-> "select_profile", query |-> query,
                    query_metadata |-> query_metadata,
                    selected |-> selected,
                    any_query |-> \A other \in SelectQueries :
                                      select_profile_for_query(PROFILE_CONFIGS, other,
                                                               query_metadata) = selected]
    /\ calls' = calls + 1
    /\ UNCHANGED <<cacheVars, ADAPTIVE_CONFIG, phase, updates, composing, analysis,
                   PROFILE_CONFIGS, pack_files, retriever>>

NextProfiles ==
    \/ \E query \in SelectQueries, query_metadata \in MetadataChoices :
           SelectProfile(query, query_metadata)
    \/ AddProfile(FixedProfile.name, FixedProfile)
    \/ \E name \in RemovableProfiles : RemoveProfile(name)

SpecProfiles == InitProfiles /\ [][NextProfiles]_vars

\* C14: select_profile_for_query is a function of the metadata alone, never of the
\* query text: a registered preferred_profile is returned whatever content_type
\* says; otherwise content_type 'definition' gives 'defs', 'example' or 'exercise'
\* gives 'worked', 'general' gives 'general'; in every other case (no metadata,
\* unregistered preferred_profile with no matching content_type, unknown
\* content_type) the result is 'theorem'.
C14_SelectionByMetadata ==
    last.op = "select_profile" =>
        LET data == last.query_metadata.data
            keys == IF last.query_metadata.given THEN DOMAIN data ELSE {}
            preferred_registered ==
                /\ "preferred_profile" \in keys
                /\ data["preferred_profile"] \in DOMAIN PROFILE_CONFIGS
            hinted(types) == "content_type" \in keys /\ data["content_type"] \in types
        IN  /\ last.any_query
            /\ preferred_registered => last.selected = data["preferred_profile"]
            /\ ~preferred_registered =>
                   /\ hinted({"definition"}) => last.selected = "defs"
                   /\ hinted({"example", "exercise"}) => last.selected = "worked"
                   /\ hinted({"general"}) => last.selected = "general"
                   /\ ~hinted({"definition", "example", "exercise", "general"})
                          => last.selected = "theorem"

\* a profile registered at run time is preferred and wins over the content type
C14_Witness ==
    /\ last.op = "select_profile"
    /\ FixedProfile.name \in DOMAIN PROFILE_CONFIGS
    /\ last.query_metadata.given
    /\ DOMAIN last.query_metadata.data = {"preferred_profile", "content_type"}
    /\ last.query_metadata.data["preferred_profile"] = FixedProfile.name
    /\ last.query_metadata.data["content_type"] = "definition"
    /\ last.selected = FixedProfile.name

\* C29: after any sequence of add_profile and remove_profile calls,
\* select_profile_for_query returns, for every metadata value, a name for which
\* get_profile_config succeeds on the registry as it is at the call.
C29_SelectedProfileRegistered ==
    last.op = "select_profile" =>
        get_profile_config(PROFILE_CONFIGS, last.selected).error = Ok

\* C15: a retrieve call with a profile name that is not registered fails with an
\* unknown-profile error and substitutes no other profile; the failure happens
\* before the cache lookup, so the cache contents, the LRU order, the lookup
\* counter and the hit counter are unchanged and neither the index nor a pack
\* file is accessed.
C15_UnknownProfileFailsFirst ==
    (last.op = "retrieve" /\ ~last.registered) =>
        /\ last.error = "ValueError: Unknown profile"
        /\ last.ret = <<>>
        /\ last.source = None
        /\ query_cache = last.cache_before
        /\ pack_files = last.files_before
        /\ last.searches = <<>>
        /\ ~last.loaded_pack
        /\ ~last.composed

\* the unregistered profile is asked for while the cache holds an earlier result
C15_Witness ==
    /\ last.op = "retrieve"
    /\ last.profile = FixedProfile.name
    /\ ~last.registered
    /\ last.error # Ok
    /\ Keys(query_cache.cache) # {}
    /\ query_cache.total_queries = 1

(***************************************************************************)
(* SpecHandler: the /query handler of the universal API                    *)
(* (universal_rag_api.py, query_rag).  The analyzer and the retriever are  *)
(* the handler's collaborators: what they answer is an input of the call.  *)
(* UniversalModelInterface.generate catches every exception and always     *)
(* returns a string.                                                       *)
(***************************************************************************)
\* query_analyzer.analyze_query(...): the recommendation of the verdict, or raises
AnalyzerOutcomes == {"direct", "rag", "raises"}

\* retriever.retrieve(...): a list of chunks, a dict with 'context_blocks', or raises
RetrievalOutcomes == {"list", "dict", "raises"}

HandlerQueries ==
    {"", "limit", "what is x", "what is a limit", "prove the central limit theorem"}

\* the try block of query_rag up to the response: the local variables at its end,
\* or the exception that left it
query_rag_body(initialized, config, query, analyzer, retrieval) ==
    IF ~initialized
    THEN [raised |-> "HTTPException: RAG system not initialized", use_rag |-> FALSE,
          context_blocks |-> "none"]
    ELSE LET \* complexity_analysis is assigned only when analyze_query returns
             complexity_analysis_bound == analyzer # "raises"
             use_rag == IF analyzer = "raises"
                        THEN Len(Split(query)) > 3
                        ELSE analyzer = "rag"
             \* retrieval_result['context_blocks'] needs a dict; a list raises
             \* TypeError, and every exception of the RAG path ends in the direct
             \* prompt with no context block
             context_blocks == IF use_rag /\ retrieval = "dict" THEN "retrieved"
                               ELSE "empty"
         IN  IF config.enable_telemetry /\ ~complexity_analysis_bound
             THEN \* add_task(log_query, request.query, complexity_analysis, ...)
                  [raised |-> "UnboundLocalError: complexity_analysis",
                   use_rag |-> use_rag, context_blocks |-> context_blocks]
             ELSE IF ~complexity_analysis_bound
             THEN \* QueryResponse(complexity_score=complexity_analysis.complexity_score)
                  [raised |-> "UnboundLocalError: complexity_analysis",
                   use_rag |-> use_rag, context_blocks |-> context_blocks]
             ELSE [raised |-> Ok, use_rag |-> use_rag, context_blocks |-> context_blocks]

\* query_rag: "except Exception as e: raise HTTPException(status_code=500, ...)"
query_rag(initialized, config, query, analyzer, retrieval) ==
    LET body == query_rag_body(initialized, config, query, analyzer, retrieval)
    IN  IF body.raised # Ok
        THEN [status |-> 500, detail |-> body.raised, use_rag |-> body.use_rag,
              context_blocks |-> "none"]
        ELSE [status |-> 200, detail |-> Ok, use_rag |-> body.use_rag,
              context_blocks |-> body.context_blocks]

InitHandler ==
    /\ \E initialized \in BOOLEAN, query \in HandlerQueries,
          analyzer \in AnalyzerOutcomes, retrieval \in RetrievalOutcomes :
           last = [op |-> "request", initialized |-> initialized, query |-> query,
                   analyzer |-> analyzer, retrieval |-> retrieval,
                   status |-> 0, detail |-> "", use_rag |-> FALSE,
                   context_blocks |-> "none"]
    /\ \E enable_telemetry \in BOOLEAN :
           ADAPTIVE_CONFIG = [DefaultConfig EXCEPT !.enable_telemetry = enable_telemetry]
    /\ query_cache = NewQueryCache(0)
    /\ hist = IdleHist
    /\ threads = IdleThreads
    /\ phase = "ready"
    /\ updates = 0
    /\ composing = IdleComposing
    /\ analysis = IdleAnalysis
    /\ PROFILE_CONFIGS = DefaultProfiles
    /\ pack_files = NoPackFiles
    /\ retriever = IdleRetriever
    /\ calls = 0

\* POST /query
QueryRag ==
    /\ last.op = "request"
    /\ \E response \in {query_rag(last.initialized, ADAPTIVE_CONFIG, last.query,
                                  last.analyzer, last.retrieval)} :
           last' = [last EXCEPT !.op = "query_rag",
                                !.status = response.status,
                                !.detail = response.detail,
                                !.use_rag = response.use_rag,
                                !.context_blocks = response.context_blocks]
    /\ UNCHANGED <<cacheVars, ADAPTIVE_CONFIG, phase, updates, composing, analysis,
                   retrieverVars>>

NextHandler == QueryRag

SpecHandler == InitHandler /\ [][NextHandler]_vars

\* C26: in the universal API /query handler, when analyze_query raises, the
\* request still completes with a normal response: the routing decision falls
\* back to the length heuristic (RAG if and only if the query has more than 3
\* words) and the handler does not end in an HTTP 500 error.
C26_AnalyzerFailureFallsBack ==
    (last.op = "query_rag" /\ last.initialized /\ last.analyzer = "raises") =>
        /\ last.status = 200
        /\ last.use_rag <=> Len(Split(last.query)) > 3
====
